---- MODULE Spec2Model ----
(***************************************************************************)
(* Remote processor framework and rpmsg bus.                               *)
(*                                                                         *)
(*   Spec     lifecycle of one registered remote processor                 *)
(*            (drivers/remoteproc/remoteproc.c): rproc_get, rproc_put,     *)
(*            the asynchronous firmware callback rproc_loader_cont and the *)
(*            platform start/stop operations, run by NThreads callers.     *)
(*   SpecLive the same with the fairness of the kernel's scheduling.       *)
(*   SpecEpt  the endpoint table of one transport                          *)
(*            (drivers/rpmsg/virtio_rpmsg_bus.c): rpmsg_create_ept and     *)
(*            rpmsg_destroy_ept over the idr.                              *)
(*   SpecBus  the endpoint table with the two rings of the transport:      *)
(*            rpmsg_send_offchannel, rpmsg_recv_done and the remote.       *)
(*   SpecTx   the send side alone, the remote handing TX slots back.       *)
(*   SpecNs   the name service callback rpmsg_ns_cb                        *)
(*            (drivers/rpmsg/rpmsg_name_service.c) creating and destroying *)
(*            channels.                                                    *)
(*   SpecChan the bus binding drivers to channels: rpmsg_dev_probe and     *)
(*            rpmsg_dev_remove.                                            *)
(*   SpecReg  the list of registered remote processors: rproc_register,    *)
(*            rproc_unregister and the lookup of rproc_get.                *)
(*   SpecMbox the lifecycle together with the mailbox values that notify   *)
(*            no virtqueue (omap_rpmsg_mbox_callback).                     *)
(*   SpecIrq  the receive path driven by the remote's doorbells.           *)
(*   SpecWk   the transport after rpmsg_probe and the name service address.*)
(*   SpecShared  the two transports of omap_rpmsg.c on the one mailbox.    *)
(*   SpecSetup  omap_rpmsg_find_vqs and omap_rpmsg_del_vqs of a transport. *)
(*   SpecLookup  rproc_da_to_pa over the memory maps a platform registers. *)
(*   SpecFw   rproc_loader_cont seen from the memory it writes.            *)
(*   SpecParse  rproc_loader_cont over images of every layout, and the     *)
(*            bytes of the file it reads.                                  *)
(*   SpecUp   the lifecycle together with the processor it starts and      *)
(*            stops.                                                       *)
(*   SpecTrace  the lifecycle with images that carry trace buffers.        *)
(*   SpecHw   the bare hardware spinlock helpers of test_hwspinlock.c.     *)
(*   SpecSnd  concurrent rpmsg_send_offchannel calls, statement by         *)
(*            statement, and the remote that hands TX slots back.          *)
(*   SpecCx   the receive path, rpmsg_create_ept, rpmsg_destroy_ept and    *)
(*            the sends made from callbacks, in concurrent contexts.       *)
(*                                                                         *)
(* u32 quantities are kept modulo U32_MOD, a reduced word (TLC's integers  *)
(* are 32-bit signed); u64 device addresses range up to 2 * U32_MOD.       *)
(* mutex_lock_interruptible is taken to succeed: no caller has a signal    *)
(* pending.                                                                *)
(***************************************************************************)
EXTENDS Integers, Sequences, FiniteSets, TLC

VARIABLES
    firmware,       \* rproc->firmware: the firmware path given at registration
    count,          \* rproc->count
    state,          \* rproc->state
    lock,           \* rproc->lock: holder of the mutex, or Free
    done,           \* rproc->firmware_loading_complete (completion done)
    trace_buf0,     \* rproc->trace_buf0
    trace_buf1,     \* rproc->trace_buf1
    trace_len0,     \* rproc->trace_len0
    trace_len1,     \* rproc->trace_len1
    pc,             \* position of each caller thread inside rproc_get/rproc_put
    handle,         \* whether each caller thread holds a handle returned by rproc_get
    cb,             \* the firmware callbacks requested and not yet returned
    ops,            \* rproc->ops: how often start and stop were invoked, and the last call
    hist,           \* calls made so far
    idr,            \* vrp->endpoints: address -> endpoint bound there
    epts,           \* endpoint objects allocated and not freed: id -> rpmsg_endpoint
    ept_ret,        \* what the last rpmsg_create_ept call was asked and returned
    ept_hist,       \* calls made on the endpoint table so far
    rx_avail,       \* vrp->rvq, available ring: the RX buffers offered to the remote
    rx_used,        \* vrp->rvq, used ring: the frames the remote has placed, in order
    rx_pc,          \* position of the receive context inside rpmsg_recv_done
    rx_cur,         \* the message rpmsg_recv_done is handling and what it did with it
    rx_hist,        \* frames placed and taken, callbacks run, kicks of the RX ring
    last_sbuf,      \* vrp->last_sbuf
    tx_avail,       \* vrp->svq, available ring: the frames enqueued for the remote
    tx_used,        \* vrp->svq, used ring: the TX buffers the remote has handed back
    tx_hist,        \* send calls made, kicks of the TX ring
    send_ret,       \* the error the last rpmsg_send_offchannel call returned
    channels,       \* the rpmsg devices registered on the bus: device index -> rpmsg_channel
    rpmsg_dev_index,\* rpmsg_dev_index: the number the next device is named with
    ns_ret,         \* what the last rpmsg_ns_cb call was given and did
    probe_ret,      \* what the last rpmsg_dev_probe call returned
    ch_hist,        \* name service messages delivered, binds and unbinds made
    rprocs,         \* the list rprocs: the registered remote processors, in order
    reg_ret,        \* the last call on the registry and what it returned
    reg_hist,       \* calls made on the registry, loads submitted by them
    mbox_fifo,      \* the mailbox values the remote has sent and the notifier has not delivered
    mbox_ret,       \* the last value omap_rpmsg_mbox_callback got and the virtqueue it serviced
    unrung,         \* frames the remote has placed on the RX ring since its last doorbell
    mbox_hits,      \* the values delivered on the shared mailbox: how many, the last one and
                    \* the virtqueue each transport serviced for it
    rpdev,          \* struct omap_rpmsg_vproc of one transport, with what omap_rpmsg_find_vqs
                    \* was given and returned
    lk_maps,        \* the memory map rproc_da_to_pa is applied to
    lk_ret,         \* the device address last looked up and what rproc_da_to_pa returned
    fw_ret,         \* the image last parsed against lk_maps and the memory written
    ld_ret,         \* the image rproc_loader_cont was last given alone, and its outcome
    hw_lock,        \* the hardware spinlock: 0, or the context that took it
    jiffies,        \* the clock
    hw_pc,          \* per context: where it is in bare_hwspin_lock_timeout, its timeout and expiry
    hw_ret,         \* per context: the helper it called last and what that returned
    hw_calls,       \* calls into the helpers so far
    cx,             \* per context: where it is in the operation it runs, and that operation's locals
    svq_lock,       \* vrp->svq_lock: 0, or the context that holds it
    endpoints_lock, \* vrp->endpoints_lock: 0, or the context that holds it
    cx_hist,        \* what the contexts have done so far
    proc_up         \* the processor itself: started by ops->start and not stopped since

lifevars == <<firmware, count, state, lock, done, trace_buf0, trace_buf1,
              trace_len0, trace_len1, pc, handle, cb, ops, hist>>
eptvars == <<idr, epts, ept_ret, ept_hist>>
busvars == <<rx_avail, rx_used, rx_pc, rx_cur, rx_hist, last_sbuf, tx_avail, tx_used,
             tx_hist, send_ret>>
chanvars == <<channels, rpmsg_dev_index, ns_ret, probe_ret, ch_hist>>
regvars == <<rprocs, reg_ret, reg_hist>>
mboxvars == <<mbox_fifo, mbox_ret, unrung, mbox_hits, rpdev>>
lkvars == <<lk_maps, lk_ret, fw_ret, ld_ret>>
hwvars == <<hw_lock, jiffies, hw_pc, hw_ret, hw_calls>>
convars == <<cx, svq_lock, endpoints_lock, cx_hist>>
platvars == <<proc_up>>
vars == <<lifevars, eptvars, busvars, chanvars, regvars, mboxvars, lkvars, hwvars, convars,
          platvars>>

\* what the operations of one part leave alone
notlife == <<eptvars, busvars, chanvars, regvars, mboxvars, lkvars, hwvars, convars, platvars>>
notept == <<lifevars, busvars, chanvars, regvars, mboxvars, lkvars, hwvars, convars, platvars>>
notbus == <<lifevars, chanvars, regvars, mboxvars, lkvars, hwvars, convars, platvars>>
notchan == <<lifevars, busvars, regvars, mboxvars, lkvars, hwvars, convars, platvars>>
notreg == <<lifevars, eptvars, busvars, chanvars, mboxvars, lkvars, hwvars, convars, platvars>>
notmbox == <<lifevars, eptvars, busvars, chanvars, regvars, lkvars, hwvars, convars, platvars>>
notirq == <<lifevars, chanvars, regvars, lkvars, hwvars, convars, platvars>>
nothw == <<lifevars, eptvars, busvars, chanvars, regvars, mboxvars, lkvars, convars, platvars>>
notcx == <<lifevars, chanvars, regvars, mboxvars, lkvars, hwvars, platvars>>

----------------------------------------------------------------------------
(* Bounds of the model *)

\* caller threads of rproc_get / rproc_put
NThreads == 2
\* rproc_get calls made in one behaviour
MaxGets == 3
\* firmware callbacks that can be outstanding at once
MaxLoads == 2

Threads == 1..NThreads
Loads == 1..MaxLoads

----------------------------------------------------------------------------
(* Words *)

U32_MOD == 2 ^ 16

\* conversion of a u64 to u32
Lo32(x) == x % U32_MOD
\* u32 addition and subtraction
Add32(a, b) == (a + b) % U32_MOD
Sub32(a, b) == (a - b + U32_MOD) % U32_MOD

NULL == <<>>
Free == 0

----------------------------------------------------------------------------
(* include/linux/remoteproc.h *)

RPROC_OFFLINE == "OFFLINE"
RPROC_SUSPENDED == "SUSPENDED"
RPROC_RUNNING == "RUNNING"
RPROC_LOADING == "LOADING"
RPROC_CRASHED == "CRASHED"

FW_RESOURCE == 0
FW_TEXT == 1
FW_DATA == 2

RSC_TRACE == 4
RSC_BOOTADDR == 5

\* sizeof(struct fw_header), sizeof(struct fw_section), sizeof(struct fw_resource)
FwHeaderSize == 12
FwSectionSize == 16
FwResourceSize == 68

\* the memory map the processor is registered with (terminated by size 0)
memory_maps == << [da |-> 40960, pa |-> 39936, size |-> 4096],
                  [da |-> 0, pa |-> 0, size |-> 0] >>

----------------------------------------------------------------------------
(* Firmware images.  An image is its size in bytes, its magic, header_len and
   the sections that lie behind the header; a resource section carries the
   fw_resource entries its content decodes to. *)

Sec(type, da, len, rsc) == [type |-> type, da |-> da, len |-> len, rsc |-> rsc]
Rsc(type, da, len) == [type |-> type, da |-> da, len |-> len]

ImageOf ==
    [ boot |->      [size |-> 128, magic |-> "RPRC", header_len |-> 0,
                     secs |-> << Sec(FW_TEXT, 40960, 16, <<>>),
                                 Sec(FW_RESOURCE, 41216, 68,
                                     << Rsc(RSC_BOOTADDR, 40960, 0) >>) >>],
      boot_high |-> [size |-> 128, magic |-> "RPRC", header_len |-> 0,
                     secs |-> << Sec(FW_TEXT, 40960, 16, <<>>),
                                 Sec(FW_RESOURCE, 41216, 68,
                                     << Rsc(RSC_BOOTADDR, U32_MOD + 40960, 0) >>) >>],
      trace |->     [size |-> 164, magic |-> "RPRC", header_len |-> 0,
                     secs |-> << Sec(FW_RESOURCE, 41216, 136,
                                     << Rsc(RSC_TRACE, 43008, 256),
                                        Rsc(RSC_BOOTADDR, 40964, 0) >>) >>],
      text |->      [size |-> 44, magic |-> "RPRC", header_len |-> 0,
                     secs |-> << Sec(FW_TEXT, 40960, 16, <<>>) >>],
      small |->     [size |-> 8, magic |-> "RPRC", header_len |-> 0,
                     secs |-> <<>>],
      bad_magic |-> [size |-> 128, magic |-> "XXXX", header_len |-> 0,
                     secs |-> << Sec(FW_TEXT, 40960, 16, <<>>),
                                 Sec(FW_RESOURCE, 41216, 68,
                                     << Rsc(RSC_BOOTADDR, 40960, 0) >>) >>],
      truncated |-> [size |-> 120, magic |-> "RPRC", header_len |-> 0,
                     secs |-> << Sec(FW_TEXT, 40960, 16, <<>>),
                                 Sec(FW_RESOURCE, 41216, 68,
                                     << Rsc(RSC_BOOTADDR, 40960, 0) >>) >>],
      bad_da |->    [size |-> 128, magic |-> "RPRC", header_len |-> 0,
                     secs |-> << Sec(FW_RESOURCE, 41216, 68,
                                     << Rsc(RSC_BOOTADDR, 40960, 0) >>),
                                 Sec(FW_TEXT, 4096, 16, <<>>) >>] ]

ImageNames == DOMAIN ImageOf

\* what request_firmware_nowait hands to the callback: no firmware, or an image
NoFw == "none"
Firmwares == {NoFw} \cup ImageNames

\* most sections in an image
MaxSecs == 2

----------------------------------------------------------------------------
(* rproc_da_to_pa *)

RECURSIVE da_to_pa_from(_, _, _)
da_to_pa_from(maps, da, i) ==
    IF maps[i].size = 0 THEN 0
    ELSE IF da >= maps[i].da /\ da < Add32(maps[i].da, maps[i].size)
         THEN Add32(maps[i].pa, Sub32(da, maps[i].da))
         ELSE da_to_pa_from(maps, da, i + 1)

rproc_da_to_pa(maps, da) == da_to_pa_from(maps, da, 1)

----------------------------------------------------------------------------
(* rproc_handle_resources: tb is the record's trace slots, rsc the entries,
   len the section length, traceok whether ioremap_nocache succeeds *)

PAGE_SIZE == 4096

ioremap_nocache(base, ok) == IF ok THEN <<"io", base>> ELSE NULL

RECURSIVE handle_resources_from(_, _, _, _, _, _)
handle_resources_from(tb, rsc, k, len, bootaddr, traceok) ==
    IF ~(len >= FwResourceSize) THEN [bootaddr |-> bootaddr, tb |-> tb]
    ELSE
      LET e == rsc[k]
          pa == rproc_da_to_pa(memory_maps, Lo32(e.da))
          ptr == ioremap_nocache(pa - (pa % PAGE_SIZE), traceok)
          tb1 == IF e.type # RSC_TRACE THEN tb
                 ELSE IF tb.buf0 # NULL /\ tb.buf1 # NULL THEN tb
                 ELSE IF tb.buf0 = NULL
                      THEN [tb EXCEPT !.buf0 = ptr, !.len0 = e.len]
                      ELSE [tb EXCEPT !.buf1 = ptr, !.len1 = e.len]
          boot1 == IF e.type = RSC_BOOTADDR THEN e.da ELSE bootaddr
      IN handle_resources_from(tb1, rsc, k + 1, len - FwResourceSize, boot1, traceok)

\* the first entry of the table handled alone
rproc_handle_resources_first_only(tb, rsc, len, traceok) ==
    handle_resources_from(tb, rsc, 1, IF len >= FwResourceSize THEN FwResourceSize ELSE len,
                          0, traceok)

rproc_handle_resources(tb, rsc, len, traceok) ==
    handle_resources_from(tb, rsc, 1, len, 0, traceok)

----------------------------------------------------------------------------
(* rproc_loader_cont up to the call of rproc_start: the path taken, the boot
   address found and the trace slots.  mapfail is the section whose ioremap
   fails (0: none). *)

Outcome(path, bootaddr, tb) == [path |-> path, bootaddr |-> bootaddr, tb |-> tb]

RECURSIVE loader_sections(_, _, _, _, _, _, _)
loader_sections(img, i, left, bootaddr, tb, mapfail, traceok) ==
    IF ~(left > FwSectionSize) THEN Outcome("parsed", bootaddr, tb)
    ELSE
      LET section == img.secs[i]
          left1 == Sub32(left, FwSectionSize)
          pa == rproc_da_to_pa(memory_maps, Lo32(section.da))
      IN IF left1 < section.len THEN Outcome("truncated", bootaddr, tb)
         ELSE IF pa = 0 THEN Outcome("bad_da", bootaddr, tb)
         ELSE IF mapfail = i THEN Outcome("no_mem", bootaddr, tb)
         ELSE
           LET r == IF section.type = FW_RESOURCE
                    THEN rproc_handle_resources(tb, section.rsc, section.len, traceok)
                    ELSE [bootaddr |-> bootaddr, tb |-> tb]
           IN loader_sections(img, i + 1, Sub32(left1, section.len),
                              r.bootaddr, r.tb, mapfail, traceok)

\* rproc_loader_cont given the image fw->data of fw->size bytes
loader_image(image, tb, mapfail, traceok) ==
    IF image.size < FwHeaderSize THEN Outcome("too_small", 0, tb)
    ELSE IF image.magic # "RPRC" THEN Outcome("bad_magic", 0, tb)
    ELSE loader_sections(image, 1,
                         Sub32(Sub32(image.size, FwHeaderSize), image.header_len),
                         0, tb, mapfail, traceok)

loader_parse(fw, tb, mapfail, traceok) ==
    IF fw = NoFw THEN Outcome("no_fw", 0, tb)
    ELSE loader_image(ImageOf[fw], tb, mapfail, traceok)

----------------------------------------------------------------------------
(* The lifecycle of the registered processor *)

TraceSlots == [buf0 |-> trace_buf0, len0 |-> trace_len0,
               buf1 |-> trace_buf1, len1 |-> trace_len1]

\* no platform operation invoked yet
NoOp == [op |-> "none", addr |-> 0, ok |-> TRUE]

NoCb == [pc |-> "none", fw |-> NoFw, path |-> "none", bootaddr |-> 0]

\* the callbacks between request_firmware_nowait and their complete_all
InFlight == {c \in Loads : cb[c].pc # "none"}

InitLife ==
    /\ firmware \in {NULL, <<"ducati-m3.bin">>}
    /\ count = 0
    /\ state = RPROC_OFFLINE
    /\ lock = Free
    /\ done = FALSE
    /\ trace_buf0 = NULL
    /\ trace_buf1 = NULL
    /\ trace_len0 = 0
    /\ trace_len1 = 0
    /\ pc = [t \in Threads |-> "idle"]
    /\ handle = [t \in Threads |-> FALSE]
    /\ cb = [c \in Loads |-> NoCb]
    /\ ops = [starts |-> 0, stops |-> 0, last |-> NoOp]
    /\ hist = [gets |-> 0, puts |-> 0, putcalled |-> FALSE, mixed |-> FALSE,
               clean |-> TRUE, last |-> "none"]

\* the test on the count left out
get_is_first_unchecked(c) == TRUE

\* rproc_get, "if (rproc->count++)": the count found is zero
get_is_first(c) == c = 0

\* rproc_get from mutex_lock_interruptible to init_completion
GetEnter(t) ==
    /\ pc[t] = "idle"
    /\ ~handle[t]
    /\ hist.gets < MaxGets
    /\ lock = Free
    /\ count' = count + 1
    /\ hist' = [hist EXCEPT !.gets = @ + 1, !.mixed = @ \/ hist.putcalled,
                            !.last = IF get_is_first(count) THEN "none" ELSE @]
    /\ IF get_is_first(count)
       THEN /\ done' = FALSE
            /\ lock' = t
            /\ pc' = [pc EXCEPT ![t] = "get_load"]
            /\ UNCHANGED handle
       ELSE /\ handle' = [handle EXCEPT ![t] = TRUE]
            /\ UNCHANGED <<done, lock, pc>>
    /\ UNCHANGED <<firmware, state, trace_buf0, trace_buf1, trace_len0,
                   trace_len1, cb, ops>>

\* rproc_loader returns an error: no firmware path, or (refused)
\* request_firmware_nowait fails; rproc_get rolls back
GetLoadFail(t, refused) ==
    /\ pc[t] = "get_load"
    /\ firmware = NULL \/ refused
    /\ done' = TRUE
    /\ count' = count - 1
    /\ lock' = Free
    /\ pc' = [pc EXCEPT ![t] = "idle"]
    /\ hist' = [hist EXCEPT !.clean = FALSE]
    /\ UNCHANGED <<firmware, state, trace_buf0, trace_buf1, trace_len0,
                   trace_len1, handle, cb, ops>>

\* rproc_loader: request_firmware_nowait accepts the request
GetLoadSubmit(t, c) ==
    /\ pc[t] = "get_load"
    /\ firmware # NULL
    /\ cb[c].pc = "none"
    /\ \A d \in Loads : d < c => cb[d].pc # "none"
    /\ cb' = [cb EXCEPT ![c] = [NoCb EXCEPT !.pc = "pending"]]
    /\ pc' = [pc EXCEPT ![t] = "get_fin"]
    /\ UNCHANGED <<firmware, count, state, lock, done, trace_buf0, trace_buf1,
                   trace_len0, trace_len1, handle, ops, hist>>

\* rproc_get after rproc_loader succeeded
GetFinish(t) ==
    /\ pc[t] = "get_fin"
    /\ state' = RPROC_LOADING
    /\ lock' = Free
    /\ handle' = [handle EXCEPT ![t] = TRUE]
    /\ pc' = [pc EXCEPT ![t] = "idle"]
    /\ UNCHANGED <<firmware, count, done, trace_buf0, trace_buf1, trace_len0,
                   trace_len1, cb, ops, hist>>

\* rproc_put is called with a handle rproc_get returned
PutCall(t) ==
    /\ pc[t] = "idle"
    /\ handle[t]
    /\ handle' = [handle EXCEPT ![t] = FALSE]
    /\ pc' = [pc EXCEPT ![t] = "put_wait"]
    /\ hist' = [hist EXCEPT !.putcalled = TRUE]
    /\ UNCHANGED <<firmware, count, state, lock, done, trace_buf0, trace_buf1,
                   trace_len0, trace_len1, cb, ops>>

\* rproc_put not waiting for the completion
completion_passes_nowait(d) == TRUE

\* wait_for_completion returns once the completion is done
completion_passes(d) == d

PutWait(t) ==
    /\ pc[t] = "put_wait"
    /\ completion_passes(done)
    /\ pc' = [pc EXCEPT ![t] = "put_lock"]
    /\ UNCHANGED <<firmware, count, state, lock, done, trace_buf0, trace_buf1,
                   trace_len0, trace_len1, handle, cb, ops, hist>>

\* "if (rproc->count--)": the count tested before it is decremented
put_still_needed_postdec(c) == c # 0

\* stop called whenever the processor is not OFFLINE
put_calls_stop_unless_offline(s) == s # RPROC_OFFLINE

\* rproc_put, "if (--rproc->count)": the count reached is not zero
put_still_needed(c) == c - 1 # 0

\* rproc_put, "if (rproc->state == RPROC_RUNNING)"
put_calls_stop(s) == s = RPROC_RUNNING

\* rproc_put from mutex_lock_interruptible to mutex_unlock; stopok is the
\* result of ops->stop
PutBody(t, stopok) ==
    /\ pc[t] = "put_lock"
    /\ lock = Free
    /\ count' = count - 1
    /\ pc' = [pc EXCEPT ![t] = "idle"]
    /\ IF put_still_needed(count)
       THEN /\ stopok
            /\ hist' = [hist EXCEPT !.puts = @ + 1]
            /\ UNCHANGED <<state, trace_buf0, trace_buf1, ops>>
       ELSE /\ trace_buf0' = NULL
            /\ trace_buf1' = NULL
            /\ IF put_calls_stop(state)
               THEN /\ ops' = [ops EXCEPT !.stops = @ + 1,
                                              !.last = [op |-> "stop", addr |-> 0, ok |-> stopok]]
                    /\ state' = IF stopok THEN RPROC_OFFLINE ELSE state
                    /\ hist' = [hist EXCEPT !.puts = @ + 1, !.clean = @ /\ stopok]
               ELSE /\ stopok
                    /\ state' = RPROC_OFFLINE
                    /\ hist' = [hist EXCEPT !.puts = @ + 1]
                    /\ UNCHANGED ops
    /\ UNCHANGED <<firmware, lock, done, trace_len0, trace_len1, handle, cb>>

\* an image that fails validation falling through to rproc_start
loader_starts_despite_error(path) == path # "no_fw"

\* rproc_loader_cont reaches rproc_start on this path only
loader_starts(path) == path = "parsed"

\* what rproc_loader_cont leaves behind when its parse of fw has had the
\* outcome r: the trace slots, and whether it goes on to rproc_start or to
\* the label out / complete_fw
CbLoaded(c, fw, r) ==
    /\ cb[c].pc = "pending"
    /\ trace_buf0' = r.tb.buf0
    /\ trace_buf1' = r.tb.buf1
    /\ trace_len0' = r.tb.len0
    /\ trace_len1' = r.tb.len1
    /\ cb' = [cb EXCEPT ![c] = [pc |-> IF loader_starts(r.path) THEN "start" ELSE "complete",
                                fw |-> fw, path |-> r.path, bootaddr |-> r.bootaddr]]
    /\ hist' = [hist EXCEPT !.clean = @ /\ r.path = "parsed"]
    /\ UNCHANGED <<firmware, count, state, lock, done, pc, handle, ops>>

\* rproc_loader_cont from its invocation to the call of rproc_start, or to
\* the label out / complete_fw
CbInvoke(c, fw, mapfail, traceok) ==
    CbLoaded(c, fw, loader_parse(fw, TraceSlots, mapfail, traceok))

\* the boot address not handed on
start_addr_dropped(bootaddr) == 0

\* the u32 start_addr that ops->start receives for the u64 bootaddr
start_addr(bootaddr) == Lo32(bootaddr)

\* rproc_start; startok is the result of ops->start
CbStart(c, startok) ==
    /\ cb[c].pc = "start"
    /\ lock = Free
    /\ ops' = [ops EXCEPT !.starts = @ + 1,
                           !.last = [op |-> "start", addr |-> start_addr(cb[c].bootaddr),
                                     ok |-> startok]]
    /\ state' = IF startok THEN RPROC_RUNNING ELSE state
    /\ cb' = [cb EXCEPT ![c].pc = "complete",
                        ![c].path = IF startok THEN "started" ELSE "start_failed"]
    /\ hist' = [hist EXCEPT !.clean = @ /\ startok]
    /\ UNCHANGED <<firmware, count, lock, done, trace_buf0, trace_buf1,
                   trace_len0, trace_len1, pc, handle>>

\* the path without firmware returning before complete_all
complete_all_skips_no_fw(path) == path # "no_fw"

\* complete_all(&rproc->firmware_loading_complete) leaves the completion done
complete_all(path) == TRUE

\* rproc_loader_cont at complete_fw
CbComplete(c) ==
    /\ cb[c].pc = "complete"
    /\ done' = (done \/ complete_all(cb[c].path))
    /\ cb' = [cb EXCEPT ![c] = NoCb]
    /\ hist' = [hist EXCEPT !.last = cb[c].path]
    /\ UNCHANGED <<firmware, count, state, lock, trace_buf0, trace_buf1,
                   trace_len0, trace_len1, pc, handle, ops>>

\* the steps of the lifecycle; they leave the endpoint table alone
Get_Enter(t) == GetEnter(t) /\ UNCHANGED notlife
Get_LoadFail(t) == (\E refused \in BOOLEAN : GetLoadFail(t, refused)) /\ UNCHANGED notlife
Get_LoadSubmit(t) == (\E c \in Loads : GetLoadSubmit(t, c)) /\ UNCHANGED notlife
Get_Finish(t) == GetFinish(t) /\ UNCHANGED notlife
Put_Call(t) == PutCall(t) /\ UNCHANGED notlife
Put_Wait(t) == PutWait(t) /\ UNCHANGED notlife
Put_Body(t) == (\E stopok \in BOOLEAN : PutBody(t, stopok)) /\ UNCHANGED notlife
Cb_Invoke(c) ==
    /\ \E fw \in Firmwares, mapfail \in 0..MaxSecs, traceok \in BOOLEAN :
           CbInvoke(c, fw, mapfail, traceok)
    /\ UNCHANGED notlife
Cb_Start(c) == (\E startok \in BOOLEAN : CbStart(c, startok)) /\ UNCHANGED notlife
Cb_Complete(c) == CbComplete(c) /\ UNCHANGED notlife

\* the lifecycle together with the processor itself: a successful
\* ops->start leaves it running, a successful ops->stop leaves it stopped
notlifeplat == <<eptvars, busvars, chanvars, regvars, mboxvars, lkvars, hwvars, convars>>
Cb_StartUp(c) ==
    /\ \E startok \in BOOLEAN : CbStart(c, startok) /\ proc_up' = (proc_up \/ startok)
    /\ UNCHANGED notlifeplat
Put_BodyUp(t) ==
    /\ \E stopok \in BOOLEAN :
           /\ PutBody(t, stopok)
           /\ proc_up' = IF ops'.stops # ops.stops /\ stopok THEN FALSE ELSE proc_up
    /\ UNCHANGED notlifeplat

NextUp ==
    \/ \E t \in Threads : Get_Enter(t)
    \/ \E t \in Threads : Get_LoadFail(t)
    \/ \E t \in Threads : Get_LoadSubmit(t)
    \/ \E t \in Threads : Get_Finish(t)
    \/ \E t \in Threads : Put_Call(t)
    \/ \E t \in Threads : Put_Wait(t)
    \/ \E t \in Threads : Put_BodyUp(t)
    \/ \E c \in Loads : Cb_Invoke(c)
    \/ \E c \in Loads : Cb_StartUp(c)
    \/ \E c \in Loads : Cb_Complete(c)

\* images that carry trace buffers: one, two, and three in two resource
\* sections; two followed by a section at an unmapped address
TraceImageOf ==
    [ trace1 |->   [size |-> 96, magic |-> "RPRC", header_len |-> 0,
                    secs |-> << Sec(FW_RESOURCE, 41216, 68,
                                    << Rsc(RSC_TRACE, 43008, 256) >>) >>],
      trace2 |->   [size |-> 164, magic |-> "RPRC", header_len |-> 0,
                    secs |-> << Sec(FW_RESOURCE, 41216, 136,
                                    << Rsc(RSC_TRACE, 43008, 256),
                                       Rsc(RSC_TRACE, 43264, 128) >>) >>],
      trace3 |->   [size |-> 248, magic |-> "RPRC", header_len |-> 0,
                    secs |-> << Sec(FW_RESOURCE, 41216, 136,
                                    << Rsc(RSC_TRACE, 43008, 256),
                                       Rsc(RSC_TRACE, 43264, 128) >>),
                                Sec(FW_RESOURCE, 41472, 68,
                                    << Rsc(RSC_TRACE, 43520, 64) >>) >>],
      trace_bad |-> [size |-> 196, magic |-> "RPRC", header_len |-> 0,
                    secs |-> << Sec(FW_RESOURCE, 41216, 136,
                                    << Rsc(RSC_TRACE, 43008, 256),
                                       Rsc(RSC_TRACE, 43264, 128) >>),
                                Sec(FW_TEXT, 4096, 16, <<>>) >>] ]

\* rproc_loader_cont is handed one of these images
Cb_InvokeTrace(c) ==
    /\ \E fw \in DOMAIN TraceImageOf, mapfail \in 0..MaxSecs, traceok \in BOOLEAN :
           CbLoaded(c, fw, loader_image(TraceImageOf[fw], TraceSlots, mapfail, traceok))
    /\ UNCHANGED notlife

NextTrace ==
    \/ \E t \in Threads : Get_Enter(t)
    \/ \E t \in Threads : Get_LoadSubmit(t)
    \/ \E t \in Threads : Get_Finish(t)
    \/ \E t \in Threads : Put_Call(t)
    \/ \E t \in Threads : Put_Wait(t)
    \/ \E t \in Threads : Put_Body(t)
    \/ \E c \in Loads : Cb_InvokeTrace(c)
    \/ \E c \in Loads : Cb_Start(c)
    \/ \E c \in Loads : Cb_Complete(c)

----------------------------------------------------------------------------
(* The endpoint table of one transport: rpmsg_create_ept, rpmsg_destroy_ept *)

\* endpoint objects that can be allocated at once
MaxEpts == 3
\* calls of rpmsg_create_ept and rpmsg_destroy_ept made in one behaviour
MaxEptCalls == 5

EptIds == 1..MaxEpts

\* 0xFFFFFFFF, which is -1 as the int the address is compared through
RPMSG_ADDR_ANY == -1
RP_MSG_RESERVED_ADDRESSES == 1024

\* the callbacks callers give: none, or a receive function
Callbacks == {NULL, <<"rx_cb">>}

\* the addresses callers ask for
RequestedAddrs == {RPMSG_ADDR_ANY, 53, 1024, 1025}

EmptyMap == [x \in {} |-> 0]
MapPut(f, x, v) == [y \in DOMAIN f \cup {x} |-> IF y = x THEN v ELSE f[y]]
MapDel(f, x) == [y \in DOMAIN f \ {x} |-> f[y]]

\* idr_get_new_above: the smallest id >= starting_id that is not allocated
idr_get_new_above(tbl, starting_id) ==
    CHOOSE a \in starting_id..(starting_id + Cardinality(DOMAIN tbl)) :
        /\ a \notin DOMAIN tbl
        /\ \A b \in starting_id..(a - 1) : b \in DOMAIN tbl

\* idr_remove
idr_remove(tbl, id) == MapDel(tbl, id)

\* ADDR_ANY searched from 0, the reserved range included
ept_request_from_zero(addr) == IF addr = RPMSG_ADDR_ANY THEN 0 ELSE addr

\* rpmsg_create_ept: the id handed to idr_get_new_above for the address asked
ept_request(addr) ==
    IF addr = RPMSG_ADDR_ANY THEN RP_MSG_RESERVED_ADDRESSES ELSE addr

InitEpt ==
    /\ idr = EmptyMap
    /\ epts = EmptyMap
    /\ ept_ret = [req |-> 0, ept |-> NULL, addr |-> 0, nomem |-> FALSE]
    /\ ept_hist = [calls |-> 0, creates |-> 0, only_any |-> TRUE]

\* rpmsg_create_ept fails before it touches the table: idr_pre_get, kzalloc
\* or idr_get_new_above reports no memory
CreateEptNoMem(addr) ==
    /\ ept_hist.calls < MaxEptCalls
    /\ ept_ret' = [req |-> addr, ept |-> NULL, addr |-> 0, nomem |-> TRUE]
    /\ ept_hist' = [ept_hist EXCEPT !.calls = @ + 1, !.creates = @ + 1,
                                    !.only_any = @ /\ addr = RPMSG_ADDR_ANY]
    /\ UNCHANGED <<idr, epts>>

\* rpmsg_create_ept with memory available; e is the object kzalloc returns
\* and fn the callback the caller gives
CreateEpt(addr, e, fn) ==
    /\ ept_hist.calls < MaxEptCalls
    /\ e \notin DOMAIN epts
    /\ \A f \in EptIds : f < e => f \in DOMAIN epts
    /\ LET request == ept_request(addr)
           tmpaddr == idr_get_new_above(idr, request)
           bound == MapPut(idr, tmpaddr, e)
       IN IF addr # RPMSG_ADDR_ANY /\ tmpaddr # addr
          THEN /\ idr' = idr_remove(bound, request)
               /\ epts' = epts
               /\ ept_ret' = [req |-> addr, ept |-> NULL, addr |-> tmpaddr, nomem |-> FALSE]
          ELSE /\ idr' = bound
               /\ epts' = MapPut(epts, e, [addr |-> tmpaddr, cb |-> fn])
               /\ ept_ret' = [req |-> addr, ept |-> <<e>>, addr |-> tmpaddr,
                            nomem |-> FALSE]
    /\ ept_hist' = [ept_hist EXCEPT !.calls = @ + 1, !.creates = @ + 1,
                                    !.only_any = @ /\ addr = RPMSG_ADDR_ANY]

\* rpmsg_destroy_ept
DestroyEpt(e) ==
    /\ ept_hist.calls < MaxEptCalls
    /\ e \in DOMAIN epts
    /\ idr' = idr_remove(idr, epts[e].addr)
    /\ epts' = MapDel(epts, e)
    /\ ept_hist' = [ept_hist EXCEPT !.calls = @ + 1]
    /\ UNCHANGED ept_ret

Ept_CreateNoMem == (\E addr \in RequestedAddrs : CreateEptNoMem(addr)) /\ UNCHANGED notept
Ept_Create ==
    /\ \E addr \in RequestedAddrs, e \in EptIds, f \in Callbacks : CreateEpt(addr, e, f)
    /\ UNCHANGED notept
Ept_Destroy == (\E e \in EptIds : DestroyEpt(e)) /\ UNCHANGED notept

NextEpt ==
    \/ Ept_CreateNoMem
    \/ Ept_Create
    \/ Ept_Destroy

----------------------------------------------------------------------------
(* The rings of one transport: rpmsg_send_offchannel, rpmsg_recv_done *)

\* vrp->num_bufs and vrp->buf_size, as the platform configures the transport
num_bufs == 4
buf_size == 20
\* calls of rpmsg_send_offchannel made in one behaviour
MaxSends == 3
\* frames of its own the remote places on the RX ring in one behaviour
MaxRemote == 2
\* calls on the endpoint table, and accepted sends, in a behaviour that
\* exchanges messages in both directions
MaxBusEptCalls == 2
MaxBusSends == 1

\* sizeof(struct rpmsg_hdr): u16 len, u16 flags, u32 src, u32 dst, u32 unused
RpmsgHdrSize == 16
U16_MOD == 2 ^ 16
Lo16(x) == x % U16_MOD

\* the byte offsets of the RX slots from vrp->rbufs, as rpmsg_probe lays them
RxSlot(i) == i * buf_size
\* vrp->sbufs, as a byte offset from vrp->rbufs
sbufs == (num_bufs * buf_size) \div 2

\* payloads callers send and the remote writes: none, two bytes, the largest
\* payload a slot takes, and one byte more
Pattern(n) == [i \in 1..n |-> i]
MaxPayload == buf_size - RpmsgHdrSize
Payloads == {<<>>, <<7, 8>>, Pattern(MaxPayload), Pattern(MaxPayload + 1)}
SendSrcs == {RPMSG_ADDR_ANY, 60}
SendDsts == {RPMSG_ADDR_ANY, 1024}

\* the frames the remote writes by itself
RemoteFrames ==
    {[len |-> Len(d), flags |-> 0, src |-> 60, dst |-> a, unused |-> 0, data |-> d] :
        d \in {<<7, 8>>}, a \in {1024, 1025}}

NoRx == [msg |-> NULL, ept |-> NULL, freed |-> FALSE, data |-> <<>>, len |-> 0, src |-> 0]

\* rpmsg_probe: every RX slot is offered to the remote with the full slot
\* size and the RX ring is kicked once; no TX slot has been used
InitBus ==
    /\ rx_avail = [i \in 1..(num_bufs \div 2) |-> [buf |-> RxSlot(i - 1), len |-> buf_size]]
    /\ rx_used = <<>>
    /\ rx_pc = "idle"
    /\ rx_cur = NoRx
    /\ rx_hist = [placed |-> 0, remote |-> 0, taken |-> 0, cbs |-> 0, kicks |-> 1]
    /\ last_sbuf = 0
    /\ tx_avail = <<>>
    /\ tx_used = <<>>
    /\ tx_hist = [sends |-> 0, kicks |-> 0]
    /\ send_ret = "none"

\* an address given where a concrete one is required is not rejected
send_invalid_src_only(src, dst) == src = RPMSG_ADDR_ANY

\* rpmsg_send_offchannel, "src == RPMSG_ADDR_ANY || dst == RPMSG_ADDR_ANY"
send_invalid(src, dst) == src = RPMSG_ADDR_ANY \/ dst = RPMSG_ADDR_ANY

\* the largest payload refused as well
send_too_big_at_limit(len) == Lo32(len) >= Sub32(buf_size, RpmsgHdrSize)

\* rpmsg_send_offchannel, "len > vrp->buf_size - sizeof(struct rpmsg_hdr)",
\* an unsigned comparison
send_too_big(len) == Lo32(len) > Sub32(buf_size, RpmsgHdrSize)

\* a slot still with the remote handed out again
get_a_buf_reuses_last(last, used) ==
    IF last < num_bufs \div 2
    THEN [buf |-> <<sbufs + buf_size * last>>, last |-> last + 1, used |-> used]
    ELSE [buf |-> <<sbufs + buf_size * (last - 1)>>, last |-> last, used |-> used]

\* get_a_buf: the next TX slot never used or, when all were, the oldest one
\* the remote has handed back (virtqueue_get_buf), NULL when there is none
get_a_buf(last, used) ==
    IF last < num_bufs \div 2
    THEN [buf |-> <<sbufs + buf_size * last>>, last |-> last + 1, used |-> used]
    ELSE IF used = <<>>
         THEN [buf |-> NULL, last |-> last, used |-> used]
         ELSE [buf |-> <<Head(used)>>, last |-> last, used |-> Tail(used)]

\* one byte too few copied
memcpy_short(src, n) == SubSeq(src, 1, n - 1)

\* memcpy(msg->data, data, len): the first n bytes of src
memcpy(src, n) == SubSeq(src, 1, n)

\* rpmsg_send_offchannel(rpdev, src, dst, data, len) with len the length of
\* data; virtqueue_add_buf_gfp finds room, the ring having a descriptor for
\* every TX slot
Send(src, dst, data) ==
    /\ tx_hist.sends < MaxSends
    /\ LET len == Len(data)
           got == get_a_buf(last_sbuf, tx_used)
           msg == [len |-> Lo16(len), flags |-> 0, src |-> src, dst |-> dst,
                   unused |-> 0, data |-> memcpy(data, len)]
       IN IF send_invalid(src, dst)
          THEN /\ send_ret' = "EINVAL"
               /\ tx_hist' = [tx_hist EXCEPT !.sends = @ + 1]
               /\ UNCHANGED <<last_sbuf, tx_avail, tx_used>>
          ELSE IF send_too_big(len)
          THEN /\ send_ret' = "EMSGSIZE"
               /\ tx_hist' = [tx_hist EXCEPT !.sends = @ + 1]
               /\ UNCHANGED <<last_sbuf, tx_avail, tx_used>>
          ELSE IF got.buf = NULL
          THEN /\ send_ret' = "ENOMEM"
               /\ tx_hist' = [tx_hist EXCEPT !.sends = @ + 1]
               /\ UNCHANGED <<last_sbuf, tx_avail, tx_used>>
          ELSE /\ last_sbuf' = got.last
               /\ tx_used' = got.used
               /\ tx_avail' = Append(tx_avail, [buf |-> got.buf[1],
                                                len |-> RpmsgHdrSize + len,
                                                frame |-> msg,
                                                sent |-> <<[src |-> src, dst |-> dst,
                                                            data |-> data]>>])
               /\ tx_hist' = [tx_hist EXCEPT !.sends = @ + 1, !.kicks = @ + 1]
               /\ send_ret' = "0"
    /\ UNCHANGED <<rx_avail, rx_used, rx_pc, rx_cur, rx_hist>>

\* the remote writes a frame of its own into the next RX slot offered and
\* moves the slot to the used ring
RemotePlace(f) ==
    /\ rx_hist.remote < MaxRemote
    /\ rx_avail # <<>>
    /\ rx_avail' = Tail(rx_avail)
    /\ rx_used' = Append(rx_used, [buf |-> Head(rx_avail).buf,
                                   len |-> RpmsgHdrSize + Len(f.data),
                                   frame |-> f, seq |-> rx_hist.placed + 1,
                                   sent |-> NULL])
    /\ rx_hist' = [rx_hist EXCEPT !.placed = @ + 1, !.remote = @ + 1]
    /\ UNCHANGED <<rx_pc, rx_cur, last_sbuf, tx_avail, tx_used, tx_hist, send_ret>>

\* a loopback remote hands the oldest frame of the TX ring back unchanged in
\* the next RX slot offered, and returns the TX slot
RemoteLoopback ==
    /\ tx_avail # <<>>
    /\ rx_avail # <<>>
    /\ tx_avail' = Tail(tx_avail)
    /\ tx_used' = Append(tx_used, Head(tx_avail).buf)
    /\ rx_avail' = Tail(rx_avail)
    /\ rx_used' = Append(rx_used, [buf |-> Head(rx_avail).buf,
                                   len |-> Head(tx_avail).len,
                                   frame |-> Head(tx_avail).frame,
                                   seq |-> rx_hist.placed + 1,
                                   sent |-> Head(tx_avail).sent])
    /\ rx_hist' = [rx_hist EXCEPT !.placed = @ + 1]
    /\ UNCHANGED <<rx_pc, rx_cur, last_sbuf, tx_hist, send_ret>>

\* the remote takes the oldest frame of the TX ring and returns the slot
RemoteConsume ==
    /\ tx_avail # <<>>
    /\ tx_avail' = Tail(tx_avail)
    /\ tx_used' = Append(tx_used, Head(tx_avail).buf)
    /\ UNCHANGED <<rx_avail, rx_used, rx_pc, rx_cur, rx_hist, last_sbuf, tx_hist, send_ret>>

\* the newest used buffer returned first
virtqueue_get_buf_newest(used) == Len(used)

\* virtqueue_get_buf(rvq): the position in the used ring of the buffer it
\* returns, the oldest
virtqueue_get_buf(used) == 1

\* idr_find
idr_find(tbl, id) == IF id \in DOMAIN tbl THEN <<tbl[id]>> ELSE NULL

\* every bound endpoint taken to have a callback
ept_has_cb_unchecked(e) == TRUE

\* rpmsg_recv_done, "ept->cb" of a live endpoint
ept_has_cb(e) == epts[e].cb # NULL

\* rpmsg_recv_done from virtqueue_get_buf to the call of the endpoint's
\* callback.  An address bound to an endpoint object that was freed yields a
\* dangling pointer: whether a callback is then called is not determined
\* (wild).  An interrupt that finds no used buffer returns at once.
RecvTake(wild) ==
    /\ rx_pc = "idle"
    /\ rx_used # <<>>
    /\ LET k == virtqueue_get_buf(rx_used)
           m == rx_used[k]
           ept == idr_find(idr, m.frame.dst)
           freed == ept # NULL /\ ept[1] \notin DOMAIN epts
           runs == IF ept = NULL THEN FALSE
                   ELSE IF freed THEN wild
                   ELSE ept_has_cb(ept[1])
       IN /\ (~freed => ~wild)
          /\ rx_used' = [i \in 1..(Len(rx_used) - 1) |->
                            IF i < k THEN rx_used[i] ELSE rx_used[i + 1]]
          /\ rx_cur' = [msg |-> <<m>>,
                        ept |-> IF runs THEN ept ELSE NULL,
                        freed |-> freed /\ runs,
                        data |-> IF runs THEN m.frame.data ELSE <<>>,
                        len |-> IF runs THEN m.frame.len ELSE 0,
                        src |-> IF runs THEN m.frame.src ELSE 0]
          /\ rx_pc' = IF runs THEN "callback" ELSE "requeue"
          /\ rx_hist' = [rx_hist EXCEPT !.taken = @ + 1,
                                        !.cbs = IF runs THEN @ + 1 ELSE @]
    /\ UNCHANGED <<rx_avail, last_sbuf, tx_avail, tx_used, tx_hist, send_ret>>

\* rpmsg_recv_done after the callback has returned, or after the warning
\* that there is no recipient: the slot goes back on the RX ring, with the
\* length sizeof(*msg) + len of the used buffer, and the ring is kicked
RecvFinish ==
    /\ rx_pc # "idle"
    /\ rx_avail' = Append(rx_avail, [buf |-> rx_cur.msg[1].buf,
                                     len |-> RpmsgHdrSize + rx_cur.msg[1].len])
    /\ rx_hist' = [rx_hist EXCEPT !.kicks = @ + 1]
    /\ rx_pc' = "idle"
    /\ rx_cur' = NoRx
    /\ UNCHANGED <<rx_used, last_sbuf, tx_avail, tx_used, tx_hist, send_ret>>

Bus_CreateEpt ==
    /\ ept_hist.calls < MaxBusEptCalls
    /\ \E addr \in {RPMSG_ADDR_ANY, 1024}, e \in EptIds, f \in Callbacks : CreateEpt(addr, e, f)
    /\ UNCHANGED notept
Bus_DestroyEpt ==
    /\ ept_hist.calls < MaxBusEptCalls
    /\ \E e \in EptIds : DestroyEpt(e)
    /\ UNCHANGED notept
Bus_Send ==
    /\ tx_hist.sends < MaxBusSends
    /\ \E dst \in {1024, 1025}, data \in {<<7, 8>>, Pattern(MaxPayload)} : Send(60, dst, data)
    /\ UNCHANGED <<notbus, eptvars>>
Tx_Send ==
    /\ \E src \in SendSrcs, dst \in SendDsts, data \in Payloads : Send(src, dst, data)
    /\ UNCHANGED <<notbus, eptvars>>
Remote_Place == (\E f \in RemoteFrames : RemotePlace(f)) /\ UNCHANGED <<notbus, eptvars>>
Remote_Loopback == RemoteLoopback /\ UNCHANGED <<notbus, eptvars>>
Remote_Consume == RemoteConsume /\ UNCHANGED <<notbus, eptvars>>
Recv_Take == (\E wild \in BOOLEAN : RecvTake(wild)) /\ UNCHANGED <<notbus, eptvars>>
Recv_Finish == RecvFinish /\ UNCHANGED <<notbus, eptvars>>

NextBus ==
    \/ Bus_CreateEpt
    \/ Bus_DestroyEpt
    \/ Bus_Send
    \/ Remote_Place
    \/ Remote_Loopback
    \/ Recv_Take
    \/ Recv_Finish

\* the transport as rpmsg_probe leaves it, users asking for the name
\* service address or for any address, and the remote writing to both
NS_ADDR == 53
Wk_CreateEpt ==
    /\ ept_hist.calls < MaxBusEptCalls
    /\ \E addr \in {RPMSG_ADDR_ANY, NS_ADDR}, e \in EptIds, f \in Callbacks : CreateEpt(addr, e, f)
    /\ UNCHANGED notept
Wk_RemotePlace ==
    /\ \E f \in {[g EXCEPT !.dst = a] : g \in RemoteFrames, a \in {NS_ADDR, 1024}} : RemotePlace(f)
    /\ UNCHANGED <<notbus, eptvars>>

NextWk ==
    \/ Wk_CreateEpt
    \/ Bus_DestroyEpt
    \/ Wk_RemotePlace
    \/ Recv_Take
    \/ Recv_Finish

NextTx ==
    \/ Tx_Send
    \/ Remote_Consume

----------------------------------------------------------------------------
(* The channels of one transport: rpmsg_create_channel, the name service  *)
(* callback rpmsg_ns_cb, and the bus binding a driver: rpmsg_dev_probe,   *)
(* rpmsg_dev_remove                                                       *)

\* channels created in one behaviour
MaxChannels == 3
\* name service messages delivered in one behaviour
MaxNsMsgs == 3
\* binds and unbinds the driver core makes in one behaviour
MaxDevOps == 5
\* binds made while the name service handles announcements
MaxNsBinds == 1

RPMSG_NAME_SIZE == 32
\* sizeof(struct rpmsg_ns_msg): name[RPMSG_NAME_SIZE], u32 addr, u32 flags
NsMsgSize == RPMSG_NAME_SIZE + 4 + 4
RPMSG_NS_CREATE == 0
RPMSG_NS_DESTROY == 1

\* a char array of RPMSG_NAME_SIZE bytes that starts with the bytes s and is
\* zero after them
NameArray(s) == [i \in 1..RPMSG_NAME_SIZE |-> IF i <= Len(s) THEN s[i] ELSE 0]

\* the names the remote announces: "X"; 32 bytes 'X' without a terminator;
\* "X" followed by the terminator and a stray last byte
NameX == NameArray(<<88>>)
NameFull == [i \in 1..RPMSG_NAME_SIZE |-> 88]
NameStray == [NameArray(<<88>>) EXCEPT ![RPMSG_NAME_SIZE] = 90]
NsNames == {NameX, NameFull, NameStray}
NsAddrs == {7, 9}
NsFlags == {RPMSG_NS_CREATE, RPMSG_NS_DESTROY, 2}
NsLens == {NsMsgSize - 1, NsMsgSize, NsMsgSize + 1}
NsMsgs == [name : NsNames, addr : NsAddrs, flags : NsFlags]
\* the deliveries: every message at its full length, and the messages for
\* "X" at 7 one byte short and one byte long
NsDeliveries ==
    {<<m, NsMsgSize>> : m \in NsMsgs}
      \cup {<<m, len>> : m \in {n \in NsMsgs : n.name = NameX /\ n.addr = 7}, len \in NsLens}

\* "rpmsg-server-sample", the entry of omap_ipuc0_hardcoded_chnls with a
\* concrete local address
HardcodedChnls ==
    {[name |-> NameArray(<<114, 112, 109, 115, 103, 45, 115, 101, 114, 118, 101,
                           114, 45, 115, 97, 109, 112, 108, 101>>),
      src |-> 137, dst |-> RPMSG_ADDR_ANY]}

\* the outcomes of kzalloc and device_register in rpmsg_create_channel
CreateOutcomes == {"ok", "nomem", "regfail"}

\* the number of bytes of a char array before its first NUL, the whole
\* array when it has none
strnlen(s) ==
    IF \E i \in DOMAIN s : s[i] = 0
    THEN (CHOOSE i \in DOMAIN s : s[i] = 0 /\ \A j \in 1..(i - 1) : s[j] # 0) - 1
    ELSE Len(s)

\* strncpy(dst, src, n): the bytes of src up to its first NUL, then zeros,
\* n bytes in all
strncpy(src, n) ==
    LET k == strnlen(src)
    IN [i \in 1..n |-> IF i <= k THEN src[i] ELSE 0]

\* any message of sizeof(*msg) bytes or more taken
ns_len_at_least(len) == len >= NsMsgSize

\* rpmsg_ns_cb: len == sizeof(*msg)
ns_len_ok(len) == len = NsMsgSize

\* the name left as the remote sent it
force_nul_skipped(name) == name

\* msg->name[RPMSG_NAME_SIZE - 1] = '\0'
force_nul(name) == [name EXCEPT ![RPMSG_NAME_SIZE] = 0]

\* msg->flags & RPMSG_NS_DESTROY
ns_is_destroy(flags) == (flags \div RPMSG_NS_DESTROY) % 2 = 1

NoChinfo == <<>>

InitChan ==
    /\ channels = EmptyMap
    /\ rpmsg_dev_index = 0
    /\ ns_ret = [kind |-> "none", chinfo |-> NoChinfo, ok |-> FALSE, len |-> 0,
                 name |-> <<>>]
    /\ probe_ret = [ch |-> 0, err |-> "none", src_at_probe |-> 0]
    /\ ch_hist = [ns |-> 0, devops |-> 0]

\* rpmsg_create_channel(vrp, name, src, dst): the channels and the device
\* index it leaves, and whether it returned a channel
rpmsg_create_channel(chs, index, name, src, dst, outcome) ==
    IF outcome = "nomem"
    THEN [channels |-> chs, index |-> index, ok |-> FALSE]
    ELSE IF outcome = "regfail"
    THEN [channels |-> chs, index |-> index + 1, ok |-> FALSE]
    ELSE [channels |-> MapPut(chs, index,
                              [name |-> strncpy(name, RPMSG_NAME_SIZE),
                               src |-> src, dst |-> dst,
                               ept |-> NULL, bound |-> FALSE]),
          index |-> index + 1, ok |-> TRUE]

\* rpmsg_create_ept(rpdev, cb, NULL, addr), memory being available, as a
\* function of the table tbl and the live objects objs; e is the object
\* kzalloc returns
rpmsg_create_ept(tbl, objs, addr, e, fn) ==
    LET request == ept_request(addr)
        tmpaddr == idr_get_new_above(tbl, request)
        bound == MapPut(tbl, tmpaddr, e)
    IN IF addr # RPMSG_ADDR_ANY /\ tmpaddr # addr
       THEN [idr |-> idr_remove(bound, request), epts |-> objs,
             ept |-> NULL, addr |-> tmpaddr]
       ELSE [idr |-> bound, epts |-> MapPut(objs, e, [addr |-> tmpaddr, cb |-> fn]),
             ept |-> <<e>>, addr |-> tmpaddr]

\* rpmsg_destroy_ept(ept) as a function of the table and the live objects
rpmsg_destroy_ept(tbl, objs, e) ==
    [idr |-> idr_remove(tbl, objs[e].addr), epts |-> MapDel(objs, e)]

\* the object kzalloc returns next
NextEptObj == CHOOSE e \in EptIds : e \notin DOMAIN epts /\ \A f \in EptIds : f < e => f \in DOMAIN epts

\* the channels a {name, dst} pair names
ChannelsMatching(chs, name, dst) ==
    {c \in DOMAIN chs : chs[c].name = strncpy(name, RPMSG_NAME_SIZE) /\ chs[c].dst = dst}

\* the hardcoded channel table of rpmsg_probe: one rpmsg_create_channel call
ChanHardcoded(h, outcome) ==
    /\ rpmsg_dev_index < MaxChannels
    /\ LET r == rpmsg_create_channel(channels, rpmsg_dev_index, h.name, h.src, h.dst,
                                     outcome)
       IN /\ channels' = r.channels
          /\ rpmsg_dev_index' = r.index
    /\ UNCHANGED <<ns_ret, probe_ret, ch_hist, eptvars>>

\* rpmsg_ns_cb(rpdev, data, len, priv, src) for a message that is not a
\* destroy request or is malformed; outcome is what kzalloc and
\* device_register do
NsCb(msg, len, outcome) ==
    /\ ch_hist.ns < MaxNsMsgs
    /\ ns_len_ok(len) => (~ns_is_destroy(msg.flags) /\ rpmsg_dev_index < MaxChannels)
    /\ ch_hist' = [ch_hist EXCEPT !.ns = @ + 1]
    /\ IF ~ns_len_ok(len)
       THEN /\ ns_ret' = [kind |-> "malformed", chinfo |-> NoChinfo, ok |-> FALSE,
                        len |-> len, name |-> msg.name]
            /\ UNCHANGED <<channels, rpmsg_dev_index>>
       ELSE LET name == force_nul(msg.name)
                chinfo == [name |-> strncpy(name, RPMSG_NAME_SIZE),
                           src |-> RPMSG_ADDR_ANY, dst |-> msg.addr]
                r == rpmsg_create_channel(channels, rpmsg_dev_index, chinfo.name,
                                          chinfo.src, chinfo.dst, outcome)
            IN /\ channels' = r.channels
               /\ rpmsg_dev_index' = r.index
               /\ ns_ret' = [kind |-> "create", chinfo |-> <<chinfo>>, ok |-> r.ok,
                           len |-> len, name |-> msg.name]
    /\ UNCHANGED <<probe_ret, eptvars>>

\* rpmsg_ns_cb for a destroy request: rpmsg_destroy_channel(vrp, &chinfo)
\* locates a channel with the name and dst of chinfo and unregisters its
\* device, which unbinds the driver (rpmsg_dev_remove) when one is bound
NsCbDestroy(msg, len) ==
    /\ ch_hist.ns < MaxNsMsgs
    /\ ns_len_ok(len) /\ ns_is_destroy(msg.flags)
    /\ ch_hist' = [ch_hist EXCEPT !.ns = @ + 1]
    /\ LET name == force_nul(msg.name)
           chinfo == [name |-> strncpy(name, RPMSG_NAME_SIZE),
                      src |-> RPMSG_ADDR_ANY, dst |-> msg.addr]
           found == ChannelsMatching(channels, chinfo.name, chinfo.dst)
       IN IF found = {}
          THEN /\ ns_ret' = [kind |-> "destroy", chinfo |-> <<chinfo>>, ok |-> FALSE,
                           len |-> len, name |-> msg.name]
               /\ UNCHANGED <<channels, idr, epts>>
          ELSE \E c \in found :
                 /\ ns_ret' = [kind |-> "destroy", chinfo |-> <<chinfo>>, ok |-> TRUE,
                              len |-> len, name |-> msg.name]
                 /\ channels' = MapDel(channels, c)
                 /\ IF channels[c].bound
                    THEN LET d == rpmsg_destroy_ept(idr, epts, channels[c].ept[1])
                         IN idr' = d.idr /\ epts' = d.epts
                    ELSE UNCHANGED <<idr, epts>>
    /\ UNCHANGED <<rpmsg_dev_index, probe_ret, ept_ret, ept_hist>>

\* the driver's callback
DriverCb == <<"rx_cb">>

\* rpmsg_dev_probe(dev) for the channel c, a driver matching it; nomem is
\* rpmsg_create_ept running out of memory, probe_ok what rpdrv->probe returns
DevProbe(c, nomem, probe_ok) ==
    /\ ch_hist.devops < MaxDevOps
    /\ c \in DOMAIN channels /\ ~channels[c].bound
    /\ \E e \in EptIds : e \notin DOMAIN epts
    /\ ch_hist' = [ch_hist EXCEPT !.devops = @ + 1]
    /\ ept_hist' = [ept_hist EXCEPT !.creates = @ + 1,
                                    !.only_any = @ /\ channels[c].src = RPMSG_ADDR_ANY]
    /\ IF nomem
       THEN /\ ept_ret' = [req |-> channels[c].src, ept |-> NULL, addr |-> 0,
                           nomem |-> TRUE]
            /\ probe_ret' = [ch |-> c, err |-> "ENOMEM", src_at_probe |-> 0]
            /\ UNCHANGED <<channels, idr, epts>>
       ELSE LET r == rpmsg_create_ept(idr, epts, channels[c].src, NextEptObj, DriverCb)
            IN /\ ept_ret' = [req |-> channels[c].src, ept |-> r.ept, addr |-> r.addr,
                              nomem |-> FALSE]
               /\ IF r.ept = NULL
                  THEN /\ probe_ret' = [ch |-> c, err |-> "ENOMEM", src_at_probe |-> 0]
                       /\ idr' = r.idr /\ epts' = r.epts
                       /\ UNCHANGED channels
                  ELSE IF probe_ok
                  THEN /\ probe_ret' = [ch |-> c, err |-> "0", src_at_probe |-> r.addr]
                       /\ idr' = r.idr /\ epts' = r.epts
                       /\ channels' = [channels EXCEPT ![c].ept = r.ept,
                                                       ![c].src = r.addr,
                                                       ![c].bound = TRUE]
                  ELSE LET d == rpmsg_destroy_ept(r.idr, r.epts, r.ept[1])
                       IN /\ probe_ret' = [ch |-> c, err |-> "EPROBE",
                                           src_at_probe |-> r.addr]
                          /\ idr' = d.idr /\ epts' = d.epts
                          /\ channels' = [channels EXCEPT ![c].ept = r.ept,
                                                          ![c].src = r.addr]
    /\ UNCHANGED <<rpmsg_dev_index, ns_ret>>

\* rpmsg_dev_remove(dev) for the bound channel c
DevRemove(c) ==
    /\ ch_hist.devops < MaxDevOps
    /\ c \in DOMAIN channels /\ channels[c].bound
    /\ ch_hist' = [ch_hist EXCEPT !.devops = @ + 1]
    /\ LET d == rpmsg_destroy_ept(idr, epts, channels[c].ept[1])
       IN idr' = d.idr /\ epts' = d.epts
    /\ channels' = [channels EXCEPT ![c].bound = FALSE]
    /\ UNCHANGED <<rpmsg_dev_index, ns_ret, probe_ret, ept_ret, ept_hist>>

Chan_Hardcoded ==
    /\ \E h \in HardcodedChnls, outcome \in CreateOutcomes : ChanHardcoded(h, outcome)
    /\ UNCHANGED notchan
Chan_Announce ==
    /\ NsCb([name |-> NameX, addr |-> 7, flags |-> RPMSG_NS_CREATE], NsMsgSize, "ok")
    /\ UNCHANGED notchan
Ns_Cb ==
    /\ \E d \in NsDeliveries, outcome \in CreateOutcomes : NsCb(d[1], d[2], outcome)
    /\ UNCHANGED notchan
Ns_CbDestroy == (\E d \in NsDeliveries : NsCbDestroy(d[1], d[2])) /\ UNCHANGED notchan
Ns_Bind ==
    /\ ch_hist.devops < MaxNsBinds
    /\ \E c \in 0..(MaxChannels - 1) : DevProbe(c, FALSE, TRUE)
    /\ UNCHANGED notchan
Dev_Probe ==
    /\ \E c \in 0..(MaxChannels - 1), nomem \in BOOLEAN, probe_ok \in BOOLEAN :
           DevProbe(c, nomem, probe_ok)
    /\ UNCHANGED notchan
Dev_Remove == (\E c \in 0..(MaxChannels - 1) : DevRemove(c)) /\ UNCHANGED notchan

\* the name service handling the remote's announcements, a driver binding
NextNs ==
    \/ Ns_Cb
    \/ Ns_CbDestroy
    \/ Ns_Bind

\* the driver core binding and unbinding drivers on the channels of the
\* hardcoded table and of well-formed announcements
NextChan ==
    \/ Chan_Hardcoded
    \/ Chan_Announce
    \/ Dev_Probe
    \/ Dev_Remove

----------------------------------------------------------------------------
(* The registry of remote processors (drivers/remoteproc/remoteproc.c):   *)
(* the list rprocs under rproc_register, rproc_unregister and the lookup  *)
(* __find_rproc_by_name that rproc_get starts with                        *)

\* calls of rproc_register and rproc_unregister made in one behaviour
MaxRegCalls == 4
\* calls of rproc_get made on the registry in one behaviour
MaxRegGets == 2

RprocNames == {"ipu", "dsp"}

\* what __find_rproc_by_name returns besides a position in the list: NULL,
\* or the indeterminate value of a pointer that was never assigned
NotFound == 0
Indeterminate == -1

InitReg ==
    /\ rprocs = <<>>
    /\ reg_ret = [op |-> "none", name |-> "", ret |-> "none"]
    /\ reg_hist = [calls |-> 0, gets |-> 0, loads |-> 0]

\* __find_rproc_by_name(name): the position in the list of the first
\* record named name; NULL when the list has records and none is named
\* name; when the list is empty the loop body never runs and the
\* uninitialised local rproc is returned, NULL or not (wild)
find_rproc_by_name(list, name, wild) ==
    IF list = <<>>
    THEN IF wild THEN Indeterminate ELSE NotFound
    ELSE IF \E i \in DOMAIN list : list[i].name = name
    THEN CHOOSE i \in DOMAIN list :
             list[i].name = name /\ \A j \in 1..(i - 1) : list[j].name # name
    ELSE NotFound

\* rproc_register(dev, name, ops, firmware, memory_maps) with dev, name and
\* ops given; nomem is kzalloc failing
RegRegister(name, nomem) ==
    /\ reg_hist.calls < MaxRegCalls
    /\ reg_hist' = [reg_hist EXCEPT !.calls = @ + 1]
    /\ IF nomem
       THEN /\ reg_ret' = [op |-> "register", name |-> name, ret |-> "ENOMEM"]
            /\ UNCHANGED rprocs
       ELSE /\ rprocs' = Append(rprocs, [name |-> name, count |-> 0,
                                         state |-> RPROC_OFFLINE])
            /\ reg_ret' = [op |-> "register", name |-> name, ret |-> "0"]

\* the list without its i-th record
list_del(list, i) == [k \in 1..(Len(list) - 1) |-> IF k < i THEN list[k] ELSE list[k + 1]]

\* rproc_unregister(name)
RegUnregister(name, wild) ==
    /\ reg_hist.calls < MaxRegCalls
    /\ reg_hist' = [reg_hist EXCEPT !.calls = @ + 1]
    /\ wild => rprocs = <<>>
    /\ LET r == find_rproc_by_name(rprocs, name, wild)
       IN IF r = NotFound
          THEN /\ reg_ret' = [op |-> "unregister", name |-> name, ret |-> "EINVAL"]
               /\ UNCHANGED rprocs
          ELSE IF r = Indeterminate
          THEN /\ reg_ret' = [op |-> "unregister", name |-> name, ret |-> "WILD"]
               /\ UNCHANGED rprocs
          ELSE /\ rprocs' = list_del(rprocs, r)
               /\ reg_ret' = [op |-> "unregister", name |-> name, ret |-> "0"]

\* rproc_get(name) on the registry: the lookup, then the count and the
\* load of the record found; loadok is rproc_loader returning 0.  "WILD"
\* is rproc_get going on with the indeterminate pointer.
RegGet(name, wild, loadok) ==
    /\ reg_hist.gets < MaxRegGets
    /\ wild => rprocs = <<>>
    /\ LET r == find_rproc_by_name(rprocs, name, wild)
       IN IF r = NotFound
          THEN /\ reg_ret' = [op |-> "get", name |-> name, ret |-> "NULL"]
               /\ reg_hist' = [reg_hist EXCEPT !.gets = @ + 1]
               /\ UNCHANGED rprocs
          ELSE IF r = Indeterminate
          THEN /\ reg_ret' = [op |-> "get", name |-> name, ret |-> "WILD"]
               /\ reg_hist' = [reg_hist EXCEPT !.gets = @ + 1]
               /\ UNCHANGED rprocs
          ELSE IF rprocs[r].count # 0
          THEN /\ rprocs' = [rprocs EXCEPT ![r].count = @ + 1]
               /\ reg_ret' = [op |-> "get", name |-> name, ret |-> "rproc"]
               /\ reg_hist' = [reg_hist EXCEPT !.gets = @ + 1]
          ELSE IF loadok
          THEN /\ rprocs' = [rprocs EXCEPT ![r].count = @ + 1,
                                           ![r].state = RPROC_LOADING]
               /\ reg_ret' = [op |-> "get", name |-> name, ret |-> "rproc"]
               /\ reg_hist' = [reg_hist EXCEPT !.gets = @ + 1, !.loads = @ + 1]
          ELSE /\ reg_ret' = [op |-> "get", name |-> name, ret |-> "NULL"]
               /\ reg_hist' = [reg_hist EXCEPT !.gets = @ + 1]
               /\ UNCHANGED rprocs

Reg_Register ==
    /\ \E name \in RprocNames, nomem \in BOOLEAN : RegRegister(name, nomem)
    /\ UNCHANGED notreg
Reg_Unregister ==
    /\ \E name \in RprocNames, wild \in BOOLEAN : RegUnregister(name, wild)
    /\ UNCHANGED notreg
Reg_Get ==
    /\ \E name \in RprocNames, wild \in BOOLEAN, loadok \in BOOLEAN : RegGet(name, wild, loadok)
    /\ UNCHANGED notreg

NextReg ==
    \/ Reg_Register
    \/ Reg_Unregister
    \/ Reg_Get

----------------------------------------------------------------------------
(* The mailbox of one transport (arch/arm/plat-omap/omap_rpmsg.c): the     *)
(* notifier omap_rpmsg_mbox_callback, which services a virtqueue through   *)
(* vring_interrupt                                                         *)

\* the mailbox codes, 0xFFFFFF00 and following, in the reduced word
RP_MBOX_PENDING_MSG == U32_MOD - 255
RP_MBOX_CRASH == U32_MOD - 254
RP_MBOX_ECHO_REPLY == U32_MOD - 252

\* rpdev->base_vq_id and rpdev->num_of_vqs of the ipu_c1 backend
base_vq_id == 2
num_of_vqs == 2

\* the codes that are no virtqueue index
MboxCodes == {RP_MBOX_CRASH, RP_MBOX_ECHO_REPLY}
\* the two ways the remote announces a frame on the RX ring
MboxDoorbells == {RP_MBOX_PENDING_MSG, base_vq_id}

\* struct omap_rpmsg_vproc before omap_rpmsg_find_vqs: no virtqueue, the
\* buffer not mapped, no mailbox, no processor
NoRpdev == [vqs |-> 0, num_of_vqs |-> 0, buf_mapped |-> FALSE, mbox |-> "NULL", mbox_gets |-> 0,
            mbox_puts |-> 0, sent |-> <<>>, rproc |-> NULL, rproc_puts |-> 0,
            called |-> FALSE, args |-> NULL, ret |-> "none"]

InitMbox ==
    /\ mbox_fifo = <<>>
    /\ mbox_ret = [msg |-> 0, vq |-> NULL]
    /\ unrung = 0
    /\ mbox_hits = [n |-> 0, msg |-> 0, vqs |-> <<>>]
    /\ rpdev = NoRpdev

\* the value taken for the local index without the base subtracted
mbox_vq_unshifted(msg, base, nvqs) ==
    IF msg = RP_MBOX_CRASH \/ msg = RP_MBOX_ECHO_REPLY
    THEN NULL
    ELSE LET m == IF msg = RP_MBOX_PENDING_MSG THEN base ELSE msg
         IN IF m < base
            THEN NULL
            ELSE IF m < nvqs THEN <<m>> ELSE NULL

\* omap_rpmsg_mbox_callback: the local virtqueue the value msg makes it
\* service, NULL when it services none
mbox_vq(msg, base, nvqs) ==
    IF msg = RP_MBOX_CRASH \/ msg = RP_MBOX_ECHO_REPLY
    THEN NULL
    ELSE LET m == IF msg = RP_MBOX_PENDING_MSG THEN base ELSE msg
         IN IF m < base
            THEN NULL
            ELSE IF Sub32(m, base) < nvqs THEN <<Sub32(m, base)>> ELSE NULL

\* omap_rpmsg_mbox_callback(nb, index, msg) for a code that is no virtqueue
\* index: the code is logged
MboxCode(msg) ==
    /\ mbox_vq(msg, base_vq_id, num_of_vqs) = NULL
    /\ mbox_ret' = [msg |-> msg, vq |-> NULL]
    /\ UNCHANGED <<mbox_fifo, unrung, mbox_hits, rpdev>>

\* the remote writes a frame of its own into the next RX slot offered and
\* has not rung yet
IrqRemotePlace(f) ==
    /\ RemotePlace(f)
    /\ unrung' = unrung + 1
    /\ UNCHANGED <<mbox_fifo, mbox_ret, mbox_hits, rpdev>>

\* the remote rings once for the frames it has placed
IrqRemoteRing(msg) ==
    /\ unrung > 0
    /\ mbox_fifo' = Append(mbox_fifo, msg)
    /\ unrung' = 0
    /\ UNCHANGED <<mbox_ret, mbox_hits, rpdev>>

\* more_used(vq) left out: the callback is called for an empty ring too
vring_has_used_unchecked(used) == TRUE

\* vring_interrupt: the virtqueue's callback is called when the used ring
\* holds a buffer
vring_has_used(used) == used # <<>>

\* the mailbox notifier chain delivers the oldest value to
\* omap_rpmsg_mbox_callback, which calls vring_interrupt for the virtqueue
\* the value names: rpmsg_recv_done for virtqueue 0 (once), the warning of
\* rpmsg_xmit_done for virtqueue 1
MboxNotify(wild) ==
    /\ mbox_fifo # <<>>
    /\ rx_pc = "idle"
    /\ LET msg == Head(mbox_fifo)
           vq == mbox_vq(msg, base_vq_id, num_of_vqs)
       IN /\ mbox_fifo' = Tail(mbox_fifo)
          /\ mbox_ret' = [msg |-> msg, vq |-> vq]
          /\ IF vq = <<0>> /\ vring_has_used(rx_used)
             THEN RecvTake(wild)
             ELSE ~wild /\ UNCHANGED busvars
    /\ UNCHANGED <<unrung, mbox_hits, rpdev>>

Mbox_Code == (\E msg \in MboxCodes : MboxCode(msg)) /\ UNCHANGED notmbox
Irq_CreateEpt ==
    /\ ept_hist.calls < MaxBusEptCalls
    /\ \E addr \in {RPMSG_ADDR_ANY, 1024}, e \in EptIds, f \in Callbacks : CreateEpt(addr, e, f)
    /\ UNCHANGED notept
Irq_RemotePlace == (\E f \in RemoteFrames : IrqRemotePlace(f)) /\ UNCHANGED <<notirq, eptvars>>
Irq_RemoteRing ==
    /\ \E msg \in MboxDoorbells : IrqRemoteRing(msg)
    /\ UNCHANGED <<notirq, eptvars, busvars>>
Irq_Notify == (\E wild \in BOOLEAN : MboxNotify(wild)) /\ UNCHANGED <<notirq, eptvars>>
Irq_RecvFinish == RecvFinish /\ UNCHANGED <<notirq, eptvars, mboxvars>>

(* The two transports of omap_rpmsg_vprocs on the one mailbox "mailbox-1":
   the notifier chain hands every value to omap_rpmsg_mbox_callback of
   both *)

\* values the remote sends in one behaviour
MaxMboxMsgs == 2

RP_MBOX_READY == U32_MOD - 256
RP_MBOX_ECHO_REQUEST == U32_MOD - 253

\* base_vq_id of the ipu_c0 and of the ipu_c1 backend
omap_rpmsg_vprocs == <<[base_vq_id |-> 0], [base_vq_id |-> base_vq_id]>>

\* the values sent: the virtqueue indices of both transports, the first
\* value above them, the codes, and the largest word
MboxValues ==
    (0..4) \cup {RP_MBOX_READY, RP_MBOX_PENDING_MSG, RP_MBOX_CRASH, RP_MBOX_ECHO_REQUEST,
                 RP_MBOX_ECHO_REPLY, U32_MOD - 1}

\* the remote writes a value into the mailbox
MboxSend(msg) ==
    /\ Len(mbox_fifo) + mbox_hits.n < MaxMboxMsgs
    /\ mbox_fifo' = Append(mbox_fifo, msg)
    /\ UNCHANGED <<mbox_ret, unrung, mbox_hits, rpdev>>

\* the notifier chain calls omap_rpmsg_mbox_callback of both transports
\* with the oldest value
MboxDeliver ==
    /\ mbox_fifo # <<>>
    /\ LET msg == Head(mbox_fifo) IN
         mbox_hits' = [n |-> mbox_hits.n + 1, msg |-> msg,
                       vqs |-> [i \in DOMAIN omap_rpmsg_vprocs |->
                                   mbox_vq(msg, omap_rpmsg_vprocs[i].base_vq_id, num_of_vqs)]]
    /\ mbox_fifo' = Tail(mbox_fifo)
    /\ UNCHANGED <<mbox_ret, unrung, rpdev>>

Mbox_Send == (\E msg \in MboxValues : MboxSend(msg)) /\ UNCHANGED notmbox
Mbox_Deliver == MboxDeliver /\ UNCHANGED notmbox

NextShared == Mbox_Send \/ Mbox_Deliver

(* Transport set-up: omap_rpmsg_find_vqs and omap_rpmsg_del_vqs *)

\* omap_rpmsg_del_vqs applied to the transport d: the virtqueues are
\* deleted, the mailbox is put if rpdev->mbox is not NULL and the processor
\* if rpdev->rproc is not NULL
omap_rpmsg_del_vqs(d) ==
    [d EXCEPT !.vqs = 0,
              !.mbox_puts = IF d.mbox # "NULL" THEN @ + 1 ELSE @,
              !.rproc_puts = IF d.rproc # NULL THEN @ + 1 ELSE @]

\* omap_rpmsg_find_vqs after rproc_get: "return 0"
find_vqs_ret(got) == "0"

\* omap_rpmsg_find_vqs(vdev, nvqs, ...).  failvq is the virtqueue whose
\* rp_find_vq fails (0: none), mapok whether ioremap_nocache of the buffer
\* succeeds, mboxok whether omap_mbox_get does, sendfail the
\* omap_mbox_msg_send that fails (0: none) and got what rproc_get returns.
omap_rpmsg_find_vqs(d, nvqs, failvq, mapok, mboxok, sendfail, got) ==
    IF nvqs # 2 THEN [d EXCEPT !.ret = "EINVAL"]
    ELSE IF failvq \in 1..nvqs
    THEN [omap_rpmsg_del_vqs([d EXCEPT !.vqs = failvq - 1]) EXCEPT !.ret = "ENOMEM"]
    ELSE
      LET d1 == [d EXCEPT !.vqs = nvqs, !.num_of_vqs = nvqs] IN
      IF ~mapok THEN [omap_rpmsg_del_vqs(d1) EXCEPT !.ret = "ENOMEM"]
      ELSE
        LET d2 == [d1 EXCEPT !.buf_mapped = TRUE] IN
        IF ~mboxok
        THEN [omap_rpmsg_del_vqs([d2 EXCEPT !.mbox = "ERR_PTR", !.buf_mapped = FALSE])
                  EXCEPT !.ret = "EINVAL"]
        ELSE
          LET d3 == [d2 EXCEPT !.mbox = "mailbox-1", !.mbox_gets = @ + 1]
              msgs == <<"READY", "buf_addr", "ECHO_REQUEST">>
          IN IF sendfail \in 1..3
             THEN [omap_rpmsg_del_vqs([d3 EXCEPT !.sent = SubSeq(msgs, 1, sendfail - 1),
                                                 !.mbox_puts = @ + 1,
                                                 !.buf_mapped = FALSE])
                       EXCEPT !.ret = "EIO"]
             ELSE [d3 EXCEPT !.sent = msgs, !.rproc = got, !.ret = find_vqs_ret(got)]

\* rpmsg_probe calls vdev->config->find_vqs, once
FindVqs(nvqs, failvq, mapok, mboxok, sendfail, got) ==
    /\ ~rpdev.called
    /\ rpdev' = [omap_rpmsg_find_vqs(rpdev, nvqs, failvq, mapok, mboxok, sendfail, got)
                    EXCEPT !.called = TRUE,
                           !.args = [nvqs |-> nvqs, failvq |-> failvq, mapok |-> mapok,
                                     mboxok |-> mboxok, sendfail |-> sendfail, got |-> got]]
    /\ UNCHANGED <<mbox_fifo, mbox_ret, unrung, mbox_hits>>

\* the transport that was set up is removed: vdev->config->del_vqs
DelVqs ==
    /\ rpdev.called /\ rpdev.ret = "0" /\ rpdev.vqs > 0
    /\ rpdev' = omap_rpmsg_del_vqs(rpdev)
    /\ UNCHANGED <<mbox_fifo, mbox_ret, unrung, mbox_hits>>

Find_Vqs ==
    /\ \E nvqs \in 1..3, failvq \in 0..2, mapok \in BOOLEAN, mboxok \in BOOLEAN,
          sendfail \in 0..3, got \in {NULL, <<"ipu">>} :
           FindVqs(nvqs, failvq, mapok, mboxok, sendfail, got)
    /\ UNCHANGED notmbox
Del_Vqs == DelVqs /\ UNCHANGED notmbox

NextSetup == Find_Vqs \/ Del_Vqs

\* the lifecycle of the processor with its mailbox delivering codes
NextMbox ==
    \/ \E t \in Threads : Get_Enter(t)
    \/ \E t \in Threads : Get_LoadFail(t)
    \/ \E t \in Threads : Get_LoadSubmit(t)
    \/ \E t \in Threads : Get_Finish(t)
    \/ \E t \in Threads : Put_Call(t)
    \/ \E t \in Threads : Put_Wait(t)
    \/ \E t \in Threads : Put_Body(t)
    \/ \E c \in Loads : Cb_Invoke(c)
    \/ \E c \in Loads : Cb_Start(c)
    \/ \E c \in Loads : Cb_Complete(c)
    \/ Mbox_Code

\* the receive side driven by the remote's doorbells
NextIrq ==
    \/ Irq_CreateEpt
    \/ Irq_RemotePlace
    \/ Irq_RemoteRing
    \/ Irq_Notify
    \/ Irq_RecvFinish

----------------------------------------------------------------------------
(* rproc_da_to_pa applied to the memory maps a platform can register *)

\* the entries of the maps tried: one page at device address 0, at the
\* second page or at the last page of the address space, mapped to
\* physical address 0 or to the third page
LookupEntries ==
    [da : {0, PAGE_SIZE, U32_MOD - PAGE_SIZE}, pa : {0, 2 * PAGE_SIZE}, size : {PAGE_SIZE}]

\* the maps of one or two entries with ranges that do not overlap, closed
\* by the entry of size 0
LookupTables ==
    {<<e, [da |-> 0, pa |-> 0, size |-> 0]>> : e \in LookupEntries}
      \cup {<<p[1], p[2], [da |-> 0, pa |-> 0, size |-> 0]>> :
               p \in {q \in LookupEntries \X LookupEntries : q[1].da # q[2].da}}

\* the device addresses looked up: the ends of every range and their
\* neighbours
LookupDas ==
    {0, 1, PAGE_SIZE - 1, PAGE_SIZE, PAGE_SIZE + 1, 2 * PAGE_SIZE - 1, 2 * PAGE_SIZE,
     U32_MOD - PAGE_SIZE - 1, U32_MOD - PAGE_SIZE, U32_MOD - 1}

\* rproc_loader_cont not called yet
NoLd == [called |-> FALSE, kind |-> "none", image |-> NULL, mapfail |-> 0, wild |-> NULL,
         out |-> NULL]

InitLookup ==
    /\ lk_maps = memory_maps
    /\ lk_ret = [da |-> 0, pa |-> 0, called |-> FALSE]
    /\ fw_ret = [image |-> NULL, mapfail |-> 0, path |-> NULL, mem |-> <<>>, called |-> FALSE]
    /\ ld_ret = NoLd

\* the platform hands a memory map to the framework
Lookup_Register ==
    /\ \E maps \in LookupTables : lk_maps' = maps
    /\ lk_ret' = [da |-> 0, pa |-> 0, called |-> FALSE]
    /\ fw_ret' = [image |-> NULL, mapfail |-> 0, path |-> NULL, mem |-> <<>>, called |-> FALSE]
    /\ UNCHANGED <<ld_ret, lifevars, eptvars, busvars, chanvars, regvars, mboxvars, hwvars, convars, platvars>>

\* one call rproc_da_to_pa(maps, da) on the map registered
Lookup_Call ==
    /\ \E da \in LookupDas :
           lk_ret' = [da |-> da, pa |-> rproc_da_to_pa(lk_maps, da), called |-> TRUE]
    /\ UNCHANGED <<lk_maps, fw_ret, ld_ret, lifevars, eptvars, busvars, chanvars, regvars, mboxvars, hwvars, convars, platvars>>

NextLookup == Lookup_Register \/ Lookup_Call

----------------------------------------------------------------------------
(* rproc_loader_cont seen from the memory of the remote processor: memory is
   a function from the physical addresses written to the byte written there,
   a byte being <<section, offset in the section's content>> *)

\* memcpy(ptr, section->content, len) with ptr = ioremap(pa, len)
section_memcpy(mem, pa, i, len) ==
    LET dst == {Add32(pa, k) : k \in 0..(len - 1)} IN
    [a \in DOMAIN mem \cup dst |-> IF a \in dst THEN <<i, Sub32(a, pa)>> ELSE mem[a]]

RECURSIVE loader_writes_from(_, _, _, _, _, _)
loader_writes_from(maps, img, i, left, mapfail, mem) ==
    IF ~(left > FwSectionSize) THEN [path |-> "parsed", mem |-> mem]
    ELSE
      LET section == img.secs[i]
          left1 == Sub32(left, FwSectionSize)
          pa == rproc_da_to_pa(maps, Lo32(section.da))
      IN IF left1 < section.len THEN [path |-> "truncated", mem |-> mem]
         ELSE IF pa = 0 THEN [path |-> "bad_da", mem |-> mem]
         ELSE IF mapfail = i THEN [path |-> "no_mem", mem |-> mem]
         ELSE loader_writes_from(maps, img, i + 1, Sub32(left1, section.len), mapfail,
                                 section_memcpy(mem, pa, i, section.len))

loader_writes(maps, image, mapfail) ==
    IF image.size < FwHeaderSize THEN [path |-> "too_small", mem |-> <<>>]
    ELSE IF image.magic # "RPRC" THEN [path |-> "bad_magic", mem |-> <<>>]
    ELSE loader_writes_from(maps, image, 1,
                            Sub32(Sub32(image.size, FwHeaderSize), image.header_len),
                            mapfail, <<>>)

\* the sections tried: at the first bytes of the first page (two of them
\* overlap) or at the page that ends the address space, empty or of 8 bytes
SecChoices ==
    {Sec(FW_TEXT, da, len, <<>>) : da \in {0, 4, U32_MOD - PAGE_SIZE}, len \in {0, 8}}

RECURSIVE SecBytes(_)
SecBytes(secs) ==
    IF secs = <<>> THEN 0 ELSE FwSectionSize + Head(secs).len + SecBytes(Tail(secs))

\* the images tried: a valid header followed by complete sections
FwImages ==
    {[size |-> FwHeaderSize + SecBytes(s), magic |-> "RPRC", header_len |-> 0, secs |-> s] :
        s \in UNION {[1..n -> SecChoices] : n \in 0..MaxSecs}}

\* request_firmware_nowait hands an image to rproc_loader_cont
Fw_Load ==
    /\ \E image \in FwImages, mapfail \in 0..MaxSecs :
           LET r == loader_writes(lk_maps, image, mapfail) IN
           fw_ret' = [image |-> image, mapfail |-> mapfail, path |-> r.path,
                      mem |-> r.mem, called |-> TRUE]
    /\ UNCHANGED <<lk_maps, lk_ret, ld_ret, lifevars, eptvars, busvars, chanvars, regvars, mboxvars, hwvars, convars, platvars>>

NextFw == Lookup_Register \/ Fw_Load

----------------------------------------------------------------------------
(* rproc_loader_cont applied to images of every layout: sections of every
   type, with and without resources, in files that end where the last
   section ends, before it or after it *)

\* the sections tried: text without content (at a mapped and at an unmapped
\* device address), text of 16 bytes, and resource tables of one or two
\* entries
ParseSecs ==
    { Sec(FW_TEXT, 40960, 0, <<>>),
      Sec(FW_TEXT, 4096, 0, <<>>),
      Sec(FW_TEXT, 40960, 16, <<>>),
      Sec(FW_RESOURCE, 41216, FwResourceSize, << Rsc(RSC_BOOTADDR, 40964, 0) >>),
      Sec(FW_RESOURCE, 41216, FwResourceSize, << Rsc(RSC_TRACE, 43008, 256) >>),
      Sec(FW_RESOURCE, 41216, 2 * FwResourceSize,
          << Rsc(RSC_BOOTADDR, 40968, 0), Rsc(RSC_TRACE, 43008, 256) >>) }

\* the bytes a file has more (or fewer) than its sections take
ParseSlacks == {0 - 8, 0, 8}

ParseImages ==
    {[size |-> FwHeaderSize + SecBytes(s) + k, magic |-> "RPRC", header_len |-> 0, secs |-> s] :
        s \in UNION {[1..n -> ParseSecs] : n \in 0..MaxSecs}, k \in ParseSlacks}

\* request_firmware_nowait hands an image to rproc_loader_cont, once, no
\* trace buffer being recorded
Parse_Load ==
    /\ ~ld_ret.called
    /\ \E image \in ParseImages, mapfail \in 0..MaxSecs, traceok \in BOOLEAN :
           ld_ret' = [called |-> TRUE, kind |-> "load", image |-> image, mapfail |-> mapfail,
                      wild |-> NULL,
                      out |-> loader_image(image,
                                           [buf0 |-> NULL, len0 |-> 0, buf1 |-> NULL, len1 |-> 0],
                                           mapfail, traceok)]
    /\ UNCHANGED <<lk_maps, lk_ret, fw_ret, lifevars, eptvars, busvars, chanvars, regvars, mboxvars, hwvars, convars, platvars>>

(* The bytes of the file rproc_loader_cont reads: a read is the offset of
   its first byte from fw->data and the number of bytes.  A section header
   that does not lie inside the file holds whatever lies behind it in
   memory (wild). *)

RECURSIVE loader_reads_from(_, _, _, _, _, _, _, _)
loader_reads_from(img, i, off, left, mapfail, wild, reads, wrote) ==
    IF ~(left > FwSectionSize) THEN [path |-> "parsed", reads |-> reads, wrote |-> wrote]
    ELSE
      LET section == IF off + FwSectionSize <= img.size THEN img.secs[i] ELSE wild
          reads1 == Append(reads, [off |-> off, n |-> FwSectionSize])
          left1 == Sub32(left, FwSectionSize)
          pa == rproc_da_to_pa(memory_maps, Lo32(section.da))
      IN IF left1 < section.len THEN [path |-> "truncated", reads |-> reads1, wrote |-> wrote]
         ELSE IF pa = 0 THEN [path |-> "bad_da", reads |-> reads1, wrote |-> wrote]
         ELSE IF mapfail = i THEN [path |-> "no_mem", reads |-> reads1, wrote |-> wrote]
         ELSE loader_reads_from(img, i + 1, off + FwSectionSize + section.len,
                                Sub32(left1, section.len), mapfail, wild,
                                Append(reads1, [off |-> off + FwSectionSize, n |-> section.len]),
                                wrote + section.len)

loader_reads(image, mapfail, wild) ==
    IF image.size < FwHeaderSize THEN [path |-> "too_small", reads |-> <<>>, wrote |-> 0]
    ELSE IF image.magic # "RPRC"
         THEN [path |-> "bad_magic", reads |-> <<[off |-> 0, n |-> FwHeaderSize]>>, wrote |-> 0]
    ELSE loader_reads_from(image, 1, FwHeaderSize + image.header_len,
                           Sub32(Sub32(image.size, FwHeaderSize), image.header_len),
                           mapfail, wild, <<[off |-> 0, n |-> FwHeaderSize]>>, 0)

\* the sections of the files read: text without content or of 8 bytes, at a
\* mapped or an unmapped device address
ReadSecs ==
    {Sec(FW_TEXT, da, len, <<>>) : da \in {40960, 4096}, len \in {0, 8}}

\* header_len as the file states it: the bytes that lie between the fixed
\* header and the first section, or more than the file has
ReadImages ==
    {[size |-> FwHeaderSize + h + SecBytes(s) + k, magic |-> "RPRC",
      header_len |-> IF x = 0 THEN h ELSE h + SecBytes(s) + k + x, secs |-> s] :
        s \in UNION {[1..n -> ReadSecs] : n \in 0..MaxSecs}, h \in {0, 4}, k \in {0, 8},
        x \in {0, 1, 20}}

\* what a section header beyond the file can hold: an unmapped address, a
\* length that takes the rest of what the parser believes is left, or less
WildSecs ==
    { Sec(FW_TEXT, 4096, 0, <<>>),
      Sec(FW_TEXT, 40960, U32_MOD - 1 - FwSectionSize, <<>>),
      Sec(FW_TEXT, 40960, U32_MOD - 4096, <<>>) }

\* request_firmware_nowait hands rproc_loader_cont a file whose header_len
\* need not be true
Parse_Read ==
    /\ ~ld_ret.called
    /\ \E image \in ReadImages, mapfail \in 0..MaxSecs, wild \in WildSecs :
           ld_ret' = [called |-> TRUE, kind |-> "read", image |-> image, mapfail |-> mapfail,
                      wild |-> wild, out |-> loader_reads(image, mapfail, wild)]
    /\ UNCHANGED <<lk_maps, lk_ret, fw_ret, lifevars, eptvars, busvars, chanvars, regvars, mboxvars, hwvars, convars, platvars>>

NextParse == Parse_Load \/ Parse_Read

----------------------------------------------------------------------------
(* drivers/hwspinlock/test_hwspinlock.c: the bare lock helpers.  The lock
   itself (hwlock->ops) is the hardware's: a register that reads as taken
   by the first reader and as busy by every later one until it is
   written. *)

\* the contexts that try the lock
HwCtxs == 1..NThreads

\* the timeouts passed to bare_hwspin_lock_timeout
MAX_SCHEDULE_TIMEOUT == U32_MOD \div 2 - 1
HwTimeouts == {-1, 0, 1, MAX_SCHEDULE_TIMEOUT}

\* most calls into the helpers, and ticks of the clock
MaxHwCalls == 3
MaxJiffies == 2

InitHw ==
    /\ hw_lock = 0
    /\ jiffies = 0
    /\ hw_pc = [c \in HwCtxs |-> [at |-> "idle", to |-> 0, expire |-> 0]]
    /\ hw_ret = [c \in HwCtxs |-> [op |-> "none", ret |-> "none"]]
    /\ hw_calls = 0

\* hwlock->ops->trylock: whether the caller got the lock
ops_trylock(holder) == holder = 0

\* time_is_before_eq_jiffies(expire): (long)(jiffies - expire) >= 0
time_is_before_eq_jiffies(expire, now) == Sub32(now, expire) < U32_MOD \div 2

trylock_ret_ignored(got) == "OK"

\* bare_hwspin_trylock's result from what ops->trylock returned
trylock_ret(got) == IF ~got THEN "EBUSY" ELSE "OK"

\* bare_hwspin_trylock
HwTrylock(c) ==
    /\ hw_pc[c].at = "idle"
    /\ hw_calls < MaxHwCalls
    /\ LET got == ops_trylock(hw_lock) IN
         /\ hw_lock' = IF got THEN c ELSE hw_lock
         /\ hw_ret' = [hw_ret EXCEPT ![c] = [op |-> "trylock", ret |-> trylock_ret(got)]]
    /\ hw_calls' = hw_calls + 1
    /\ UNCHANGED <<jiffies, hw_pc>>

\* bare_hwspin_lock_timeout up to its loop
HwLockTimeout(c, to) ==
    /\ hw_pc[c].at = "idle"
    /\ hw_calls < MaxHwCalls
    /\ hw_calls' = hw_calls + 1
    /\ IF to < 0
       THEN /\ hw_ret' = [hw_ret EXCEPT ![c] = [op |-> "lock_timeout", ret |-> "EINVAL"]]
            /\ UNCHANGED hw_pc
       ELSE /\ hw_pc' = [hw_pc EXCEPT ![c] = [at |-> "spin", to |-> to,
                                               expire |-> Add32(to, jiffies)]]
            /\ hw_ret' = [hw_ret EXCEPT ![c] = [op |-> "lock_timeout", ret |-> "spinning"]]
    /\ UNCHANGED <<hw_lock, jiffies>>

\* the test that ends the loop of bare_hwspin_lock_timeout
timed_out(to, expire, now) ==
    to # MAX_SCHEDULE_TIMEOUT /\ time_is_before_eq_jiffies(expire, now)

\* one turn of the loop of bare_hwspin_lock_timeout
HwSpin(c) ==
    /\ hw_pc[c].at = "spin"
    /\ LET got == ops_trylock(hw_lock) IN
         IF got
         THEN /\ hw_lock' = c
              /\ hw_ret' = [hw_ret EXCEPT ![c].ret = "OK"]
              /\ hw_pc' = [hw_pc EXCEPT ![c].at = "idle"]
         ELSE IF timed_out(hw_pc[c].to, hw_pc[c].expire, jiffies)
         THEN /\ hw_ret' = [hw_ret EXCEPT ![c].ret = "ETIMEDOUT"]
              /\ hw_pc' = [hw_pc EXCEPT ![c].at = "idle"]
              /\ UNCHANGED hw_lock
         ELSE UNCHANGED <<hw_lock, hw_ret, hw_pc>>
    /\ UNCHANGED <<jiffies, hw_calls>>

\* bare_hwspin_unlock, called by the context that took the lock
HwUnlock(c) ==
    /\ hw_lock = c
    /\ hw_pc[c].at = "idle"
    /\ hw_lock' = 0
    /\ UNCHANGED <<jiffies, hw_pc, hw_ret, hw_calls>>

\* the timer interrupt
HwTick ==
    /\ jiffies < MaxJiffies
    /\ jiffies' = jiffies + 1
    /\ UNCHANGED <<hw_lock, hw_pc, hw_ret, hw_calls>>

Hw_Trylock(c) == HwTrylock(c) /\ UNCHANGED nothw
Hw_LockTimeout(c) == (\E to \in HwTimeouts : HwLockTimeout(c, to)) /\ UNCHANGED nothw
Hw_Spin(c) == HwSpin(c) /\ UNCHANGED nothw
Hw_Unlock(c) == HwUnlock(c) /\ UNCHANGED nothw
Hw_Tick == HwTick /\ UNCHANGED nothw

NextHw ==
    \/ \E c \in HwCtxs : Hw_Trylock(c)
    \/ \E c \in HwCtxs : Hw_LockTimeout(c)
    \/ \E c \in HwCtxs : Hw_Spin(c)
    \/ \E c \in HwCtxs : Hw_Unlock(c)
    \/ Hw_Tick

----------------------------------------------------------------------------
(* Concurrent contexts on one transport: rpmsg_send_offchannel,
   rpmsg_create_ept, rpmsg_destroy_ept and rpmsg_recv_done statement by
   statement, with the two spinlocks of struct virtproc_info.  A context
   that is inside an endpoint's callback (incb) may call the three
   operations from there, as rpmsg_ns_cb does. *)

Ctxs == 1..NThreads

\* most rpmsg_send_offchannel calls of the senders, most such calls made
\* from callbacks, most calls on the endpoint table, most frames received
MaxCxSends == 3
MaxCbSends == 1
MaxCxEptOps == 2
MaxCxFrames == 1

NoCx == [pc |-> "idle", slot |-> 0, id |-> 0, arg |-> 0, msg |-> NULL, ept |-> NULL,
         incb |-> FALSE]

InitCx ==
    /\ cx = [t \in Ctxs |-> NoCx]
    /\ svq_lock = 0
    /\ endpoints_lock = 0
    /\ cx_hist = [sends |-> 0, ring |-> <<>>, kicks |-> 0, accepted |-> {}, eops |-> 0,
                  objs |-> 0, destroyed |-> {}]

spin_never_waits(holder) == TRUE

\* spin_lock(l) returns once l is free
spin_is_free(holder) == holder = 0

\* spin_unlock(l)
spin_unlock(holder) == 0

\* rpmsg_send_offchannel is called with concrete addresses and a payload
\* that fits
CxSendCall(t) ==
    /\ cx[t].pc = "idle"
    /\ cx' = [cx EXCEPT ![t].pc = "s_get", ![t].id = cx_hist.sends + 1]
    /\ cx_hist' = [cx_hist EXCEPT !.sends = @ + 1]
    /\ UNCHANGED <<svq_lock, endpoints_lock, last_sbuf, tx_avail, tx_used>>

\* get_a_buf reads vrp->last_sbuf, or takes the oldest buffer off the TX
\* used ring; without a buffer the send returns -ENOMEM
CxGetRead(t) ==
    /\ cx[t].pc = "s_get"
    /\ IF last_sbuf < num_bufs \div 2
       THEN /\ cx' = [cx EXCEPT ![t].pc = "s_inc", ![t].arg = last_sbuf]
            /\ UNCHANGED tx_used
       ELSE IF tx_used = <<>>
       THEN /\ cx' = [cx EXCEPT ![t].pc = "idle"]
            /\ UNCHANGED tx_used
       ELSE /\ cx' = [cx EXCEPT ![t].pc = "s_lock", ![t].slot = Head(tx_used)]
            /\ tx_used' = Tail(tx_used)
    /\ UNCHANGED <<svq_lock, endpoints_lock, cx_hist, last_sbuf, tx_avail>>

\* get_a_buf stores vrp->last_sbuf + 1 and returns the slot of the value read
CxGetInc(t) ==
    /\ cx[t].pc = "s_inc"
    /\ last_sbuf' = cx[t].arg + 1
    /\ cx' = [cx EXCEPT ![t].pc = "s_lock", ![t].slot = sbufs + buf_size * cx[t].arg]
    /\ UNCHANGED <<svq_lock, endpoints_lock, cx_hist, tx_avail, tx_used>>

\* the message is written into the slot; spin_lock(&vrp->svq_lock)
CxLock(t) ==
    /\ cx[t].pc = "s_lock"
    /\ spin_is_free(svq_lock)
    /\ svq_lock' = t
    /\ cx' = [cx EXCEPT ![t].pc = "s_add"]
    /\ UNCHANGED <<endpoints_lock, cx_hist, last_sbuf, tx_avail, tx_used>>

\* virtqueue_add_buf_gfp on the ring of num_bufs / 2 descriptors; without a
\* free descriptor the send unlocks and returns the error
CxAdd(t) ==
    /\ cx[t].pc = "s_add"
    /\ IF Len(tx_avail) + Len(tx_used) >= num_bufs \div 2
       THEN /\ svq_lock' = spin_unlock(svq_lock)
            /\ cx' = [cx EXCEPT ![t].pc = "idle"]
            /\ UNCHANGED <<tx_avail, cx_hist>>
       ELSE /\ tx_avail' = Append(tx_avail, [buf |-> cx[t].slot, len |-> RpmsgHdrSize,
                                             id |-> cx[t].id])
            /\ cx' = [cx EXCEPT ![t].pc = "s_kick"]
            /\ cx_hist' = [cx_hist EXCEPT !.ring = Append(@, cx[t].id)]
            /\ UNCHANGED svq_lock
    /\ UNCHANGED <<endpoints_lock, last_sbuf, tx_used>>

\* virtqueue_kick; spin_unlock(&vrp->svq_lock); return 0
CxKick(t) ==
    /\ cx[t].pc = "s_kick"
    /\ svq_lock' = spin_unlock(svq_lock)
    /\ cx' = [cx EXCEPT ![t].pc = "idle"]
    /\ cx_hist' = [cx_hist EXCEPT !.kicks = @ + 1, !.accepted = @ \cup {cx[t].id}]
    /\ UNCHANGED <<endpoints_lock, last_sbuf, tx_avail, tx_used>>

\* rpmsg_create_ept up to spin_lock(&vrp->endpoints_lock)
CxCreateLock(t, addr) ==
    /\ cx[t].pc = "idle"
    /\ cx_hist.eops < MaxCxEptOps
    /\ spin_is_free(endpoints_lock)
    /\ endpoints_lock' = t
    /\ cx' = [cx EXCEPT ![t].pc = "c_body", ![t].arg = addr]
    /\ cx_hist' = [cx_hist EXCEPT !.eops = @ + 1, !.objs = @ + 1]
    /\ UNCHANGED <<svq_lock, idr, epts>>

\* rpmsg_create_ept from idr_get_new_above to its return
CxCreateBody(t) ==
    /\ cx[t].pc = "c_body"
    /\ LET r == rpmsg_create_ept(idr, epts, cx[t].arg, cx_hist.objs, <<"rx_cb">>) IN
         idr' = r.idr /\ epts' = r.epts
    /\ endpoints_lock' = spin_unlock(endpoints_lock)
    /\ cx' = [cx EXCEPT ![t].pc = "idle"]
    /\ UNCHANGED <<svq_lock, cx_hist>>

\* rpmsg_destroy_ept(e) up to spin_lock(&vrp->endpoints_lock); e is an
\* endpoint its caller got from rpmsg_create_ept and has not destroyed
CxDestroyLock(t, e) ==
    /\ cx[t].pc = "idle"
    /\ cx_hist.eops < MaxCxEptOps
    /\ e \in DOMAIN epts
    /\ \A u \in Ctxs : ~(cx[u].pc = "d_body" /\ cx[u].arg = e)
    /\ spin_is_free(endpoints_lock)
    /\ endpoints_lock' = t
    /\ cx' = [cx EXCEPT ![t].pc = "d_body", ![t].arg = e]
    /\ cx_hist' = [cx_hist EXCEPT !.eops = @ + 1]
    /\ UNCHANGED <<svq_lock, idr, epts>>

\* rpmsg_destroy_ept from idr_remove to its return
CxDestroyBody(t) ==
    /\ cx[t].pc = "d_body"
    /\ LET r == rpmsg_destroy_ept(idr, epts, cx[t].arg) IN
         idr' = r.idr /\ epts' = r.epts
    /\ endpoints_lock' = spin_unlock(endpoints_lock)
    /\ cx' = [cx EXCEPT ![t].pc = "idle"]
    /\ cx_hist' = [cx_hist EXCEPT !.destroyed = @ \cup {cx[t].arg}]
    /\ UNCHANGED svq_lock

\* rpmsg_recv_done, virtqueue_get_buf; the interrupt of a virtqueue does
\* not nest
CxRecvTake(t) ==
    /\ cx[t].pc = "idle" /\ ~cx[t].incb
    /\ \A u \in Ctxs : cx[u].msg = NULL
    /\ rx_used # <<>>
    /\ cx' = [cx EXCEPT ![t].pc = "r_find", ![t].msg = <<Head(rx_used)>>]
    /\ rx_used' = Tail(rx_used)
    /\ UNCHANGED <<svq_lock, endpoints_lock, cx_hist, rx_avail>>

\* spin_lock(&vrp->endpoints_lock); ept = idr_find(&vrp->endpoints, msg->dst)
CxRecvFind(t) ==
    /\ cx[t].pc = "r_find"
    /\ spin_is_free(endpoints_lock)
    /\ endpoints_lock' = t
    /\ cx' = [cx EXCEPT ![t].pc = "r_unlock",
                        ![t].ept = idr_find(idr, cx[t].msg[1].frame.dst)]
    /\ UNCHANGED <<svq_lock, cx_hist, rx_avail, rx_used>>

recv_done_unlock_late(holder) == holder

\* rpmsg_recv_done releases the endpoint lock before it looks at ept
recv_done_unlock(holder) == spin_unlock(holder)

\* spin_unlock(&vrp->endpoints_lock)
CxRecvUnlock(t) ==
    /\ cx[t].pc = "r_unlock"
    /\ endpoints_lock' = recv_done_unlock(endpoints_lock)
    /\ cx' = [cx EXCEPT ![t].pc = "r_check"]
    /\ UNCHANGED <<svq_lock, cx_hist, rx_avail, rx_used>>

\* "if (ept && ept->cb)" and the call of the callback.  What is read from
\* an endpoint that was freed is not determined (wild).
CxRecvCheck(t, wild) ==
    /\ cx[t].pc = "r_check"
    /\ LET ept == cx[t].ept
           freed == ept # NULL /\ ept[1] \notin DOMAIN epts
           runs == IF ept = NULL THEN FALSE
                   ELSE IF freed THEN wild
                   ELSE ept_has_cb(ept[1])
       IN /\ (~freed => ~wild)
          /\ cx' = [cx EXCEPT ![t].pc = IF runs THEN "idle" ELSE "r_requeue",
                              ![t].incb = runs]
    /\ UNCHANGED <<svq_lock, endpoints_lock, cx_hist, rx_avail, rx_used>>

\* the endpoint's callback returns
CxCbReturn(t) ==
    /\ cx[t].pc = "idle" /\ cx[t].incb
    /\ cx' = [cx EXCEPT ![t].pc = "r_requeue", ![t].incb = FALSE]
    /\ UNCHANGED <<svq_lock, endpoints_lock, cx_hist, rx_avail, rx_used>>

\* the slot goes back on the RX ring and the ring is kicked
CxRecvRequeue(t) ==
    /\ cx[t].pc = "r_requeue"
    /\ rx_avail' = Append(rx_avail, [buf |-> cx[t].msg[1].buf,
                                     len |-> RpmsgHdrSize + cx[t].msg[1].len])
    /\ cx' = [cx EXCEPT ![t].pc = "idle", ![t].msg = NULL, ![t].ept = NULL]
    /\ UNCHANGED <<svq_lock, endpoints_lock, cx_hist, rx_used>>

cxtx == <<last_sbuf, tx_avail, tx_used>>
cxrx == <<rx_avail, rx_used>>
cxrest == <<rx_pc, rx_cur, rx_hist, tx_hist, send_ret, ept_ret, ept_hist>>

Cx_SendCall(t) ==
    /\ cx_hist.sends < MaxCxSends
    /\ CxSendCall(t)
    /\ UNCHANGED <<notcx, cxrest, cxrx, idr, epts>>
Cx_CbSendCall(t) ==
    /\ cx_hist.sends < MaxCbSends
    /\ cx[t].incb
    /\ CxSendCall(t)
    /\ UNCHANGED <<notcx, cxrest, cxrx, idr, epts>>
Cx_GetRead(t) == CxGetRead(t) /\ UNCHANGED <<notcx, cxrest, cxrx, idr, epts>>
Cx_GetInc(t) == CxGetInc(t) /\ UNCHANGED <<notcx, cxrest, cxrx, idr, epts>>
Cx_Lock(t) == CxLock(t) /\ UNCHANGED <<notcx, cxrest, cxrx, idr, epts>>
Cx_Add(t) == CxAdd(t) /\ UNCHANGED <<notcx, cxrest, cxrx, idr, epts>>
Cx_Kick(t) == CxKick(t) /\ UNCHANGED <<notcx, cxrest, cxrx, idr, epts>>
Cx_RemoteConsume == RemoteConsume /\ UNCHANGED <<notcx, convars, eptvars>>
Cx_CreateLock(t) ==
    /\ \E addr \in {RPMSG_ADDR_ANY, 1024} : CxCreateLock(t, addr)
    /\ UNCHANGED <<notcx, cxrest, cxrx, cxtx>>
Cx_CreateBody(t) == CxCreateBody(t) /\ UNCHANGED <<notcx, cxrest, cxrx, cxtx>>
Cx_DestroyLock(t) ==
    /\ \E e \in DOMAIN epts : CxDestroyLock(t, e)
    /\ UNCHANGED <<notcx, cxrest, cxrx, cxtx>>
Cx_DestroyBody(t) == CxDestroyBody(t) /\ UNCHANGED <<notcx, cxrest, cxrx, cxtx>>
Cx_RemotePlace ==
    /\ rx_hist.remote < MaxCxFrames
    /\ \E f \in RemoteFrames : RemotePlace(f)
    /\ UNCHANGED <<notcx, convars, eptvars>>
Cx_RecvTake(t) == CxRecvTake(t) /\ UNCHANGED <<notcx, cxrest, cxtx, idr, epts>>
Cx_RecvFind(t) == CxRecvFind(t) /\ UNCHANGED <<notcx, cxrest, cxtx, idr, epts>>
Cx_RecvUnlock(t) == CxRecvUnlock(t) /\ UNCHANGED <<notcx, cxrest, cxtx, idr, epts>>
Cx_RecvCheck(t) ==
    /\ \E wild \in BOOLEAN : CxRecvCheck(t, wild)
    /\ UNCHANGED <<notcx, cxrest, cxtx, idr, epts>>
Cx_CbReturn(t) == CxCbReturn(t) /\ UNCHANGED <<notcx, cxrest, cxtx, idr, epts>>
Cx_RecvRequeue(t) == CxRecvRequeue(t) /\ UNCHANGED <<notcx, cxrest, cxtx, idr, epts>>

\* concurrent senders and the remote that hands the TX slots back
NextSnd ==
    \/ \E t \in Ctxs : Cx_SendCall(t)
    \/ \E t \in Ctxs : Cx_GetRead(t)
    \/ \E t \in Ctxs : Cx_GetInc(t)
    \/ \E t \in Ctxs : Cx_Lock(t)
    \/ \E t \in Ctxs : Cx_Add(t)
    \/ \E t \in Ctxs : Cx_Kick(t)
    \/ Cx_RemoteConsume

\* the receive path, the calls on the endpoint table and the sends made
\* from callbacks, in every context
NextCx ==
    \/ \E t \in Ctxs : Cx_CbSendCall(t)
    \/ \E t \in Ctxs : Cx_GetRead(t)
    \/ \E t \in Ctxs : Cx_GetInc(t)
    \/ \E t \in Ctxs : Cx_Lock(t)
    \/ \E t \in Ctxs : Cx_Add(t)
    \/ \E t \in Ctxs : Cx_Kick(t)
    \/ \E t \in Ctxs : Cx_CreateLock(t)
    \/ \E t \in Ctxs : Cx_CreateBody(t)
    \/ \E t \in Ctxs : Cx_DestroyLock(t)
    \/ \E t \in Ctxs : Cx_DestroyBody(t)
    \/ Cx_RemotePlace
    \/ \E t \in Ctxs : Cx_RecvTake(t)
    \/ \E t \in Ctxs : Cx_RecvFind(t)
    \/ \E t \in Ctxs : Cx_RecvUnlock(t)
    \/ \E t \in Ctxs : Cx_RecvCheck(t)
    \/ \E t \in Ctxs : Cx_CbReturn(t)
    \/ \E t \in Ctxs : Cx_RecvRequeue(t)

Init ==
    /\ InitLife /\ InitEpt /\ InitBus /\ InitChan /\ InitReg /\ InitMbox
    /\ InitLookup /\ InitHw /\ InitCx
    /\ proc_up = FALSE

Next ==
    \/ \E t \in Threads : Get_Enter(t)
    \/ \E t \in Threads : Get_LoadFail(t)
    \/ \E t \in Threads : Get_LoadSubmit(t)
    \/ \E t \in Threads : Get_Finish(t)
    \/ \E t \in Threads : Put_Call(t)
    \/ \E t \in Threads : Put_Wait(t)
    \/ \E t \in Threads : Put_Body(t)
    \/ \E c \in Loads : Cb_Invoke(c)
    \/ \E c \in Loads : Cb_Start(c)
    \/ \E c \in Loads : Cb_Complete(c)

Spec == Init /\ [][Next]_vars

\* The firmware loader invokes every requested callback and every thread that
\* is running goes on running.  A waiter on the mutex needs weak fairness
\* only: the number of rproc_get calls is capped, so the mutex is taken
\* finitely often and a waiter ends up continuously able to take it.
FairLife ==
    /\ \A t \in Threads : WF_vars(Get_LoadFail(t) \/ Get_LoadSubmit(t))
    /\ \A t \in Threads : WF_vars(Get_Finish(t))
    /\ \A t \in Threads : WF_vars(Put_Wait(t))
    /\ \A t \in Threads : WF_vars(Put_Body(t))
    /\ \A c \in Loads : WF_vars(Cb_Invoke(c))
    /\ \A c \in Loads : WF_vars(Cb_Start(c))
    /\ \A c \in Loads : WF_vars(Cb_Complete(c))

SpecLive == Spec /\ FairLife

SpecEpt == Init /\ [][NextEpt]_vars

SpecBus == Init /\ [][NextBus]_vars

SpecTx == Init /\ [][NextTx]_vars

SpecNs == Init /\ [][NextNs]_vars

SpecChan == Init /\ [][NextChan]_vars

SpecReg == Init /\ [][NextReg]_vars

SpecMbox == Init /\ [][NextMbox]_vars

SpecIrq == Init /\ [][NextIrq]_vars

\* the two transports on the shared mailbox
\* the transport after rpmsg_probe and the name service address
SpecWk == Init /\ [][NextWk]_vars

SpecShared == Init /\ [][NextShared]_vars

\* the set-up and the removal of one transport
SpecSetup == Init /\ [][NextSetup]_vars

SpecLookup == Init /\ [][NextLookup]_vars

SpecFw == Init /\ [][NextFw]_vars

\* rproc_loader_cont over images of every layout
SpecParse == Init /\ [][NextParse]_vars

\* the lifecycle together with the processor itself
SpecUp == Init /\ [][NextUp]_vars

\* the lifecycle with images that carry trace buffers
SpecTrace == Init /\ [][NextTrace]_vars

SpecHw == Init /\ [][NextHw]_vars

SpecSnd == Init /\ [][NextSnd]_vars

SpecCx == Init /\ [][NextCx]_vars

----------------------------------------------------------------------------
(* Properties of the lifecycle *)


\* a platform operation is invoked in this step
Invoked(op) == /\ ops' # ops
               /\ ops'.last.op = op

\* some rproc_put passes its critical section in this step
PutActs == \E t \in Threads : pc[t] = "put_lock" /\ pc'[t] = "idle"

\* the paths of rproc_loader_cont that end before rproc_start
FailPaths == {"no_fw", "too_small", "bad_magic", "truncated", "bad_da", "no_mem"}

\* C1: N concurrent get calls followed by N put calls, with the firmware
\* load, start and stop all succeeding: once the N puts have returned, start
\* and stop have each been invoked exactly once and the processor is OFFLINE
\* with refcount 0.
C1_StartStopOnce ==
    (hist.clean /\ ~hist.mixed /\ hist.gets > 0 /\ hist.puts = hist.gets)
        => /\ ops.starts = 1
           /\ ops.stops = 1
           /\ state = RPROC_OFFLINE
           /\ count = 0

C1_Witness ==
    /\ hist.clean /\ ~hist.mixed
    /\ hist.gets = NThreads
    /\ hist.puts = hist.gets

\* C2: in every state reached after a put call has returned (and with no get
\* inside its critical section), state == OFFLINE if and only if
\* refcount == 0, whatever the outcomes of load, start and stop.
C2_OfflineIffZero ==
    (hist.puts > 0 /\ lock = Free) => (state = RPROC_OFFLINE <=> count = 0)

\* C3: at most one load is in flight; a load is submitted and the completion
\* re-armed only by the get that raised the refcount from 0 to 1; a get that
\* finds a nonzero refcount returns the handle, submits nothing and leaves
\* the completion alone.
C3_OneLoad ==
    [][ /\ Cardinality(InFlight') <= 1
        /\ (InFlight' \ InFlight # {})
              => (count = 1 /\ \E t \in Threads : pc[t] = "get_load" /\ lock = t)
        /\ (done /\ ~done') => (count = 0 /\ count' = 1)
        /\ (hist'.gets # hist.gets /\ count # 0)
              => /\ \E t \in Threads : ~handle[t] /\ handle'[t] /\ pc'[t] = "idle"
                 /\ done' = done
                 /\ cb' = cb ]_vars

C3_Witness ==
    /\ count >= 2
    /\ Cardinality(InFlight) = 1
    /\ ~done

\* C4: between the submission of a load and the signalling of its
\* completion no put passes its wait: the refcount is not decremented, no
\* trace buffer is released, stop is not called and the state is not set
\* to OFFLINE.
C4_PutWaits ==
    [][ InFlight # {}
          => /\ ~PutActs
             /\ count' >= count
             /\ (trace_buf0 # NULL => trace_buf0' # NULL)
             /\ (trace_buf1 # NULL => trace_buf1' # NULL)
             /\ ~Invoked("stop")
             /\ (state' # state => state' # RPROC_OFFLINE) ]_vars

C4_Witness ==
    /\ InFlight # {}
    /\ \E t \in Threads : pc[t] = "put_wait"
    /\ trace_buf0 # NULL

\* C5: stop is invoked only by a put that brings the refcount to 0, after
\* the most recent load has signalled completion, with the state RUNNING.
C5_StopOnlyRunning ==
    [][ Invoked("stop")
          => /\ PutActs
             /\ count = 1 /\ count' = 0
             /\ done /\ InFlight = {}
             /\ state = RPROC_RUNNING ]_vars

C5_Witness == ops.stops > 0 /\ ops.last.op = "stop" /\ count = 0

\* C6: a get that raised the refcount from 0 to 1 and cannot submit the load
\* returns failure with the refcount at 0, the state OFFLINE, the completion
\* signalled and no callback pending.
C6_GetRollsBack ==
    [][ (\E t \in Threads : pc[t] = "get_load" /\ pc'[t] = "idle")
          => /\ count' = 0
             /\ state' = RPROC_OFFLINE
             /\ done'
             /\ InFlight' = {}
             /\ handle' = handle ]_vars

\* no firmware, and the images that fail validation: smaller than the
\* header, wrong magic, a section longer than the rest, an unmapped address
BadFirmwares == {NoFw, "small", "bad_magic", "truncated", "bad_da"}

\* the callback c calls rproc_start in this step
StartStep(c) == cb[c].pc = "start" /\ cb'[c].pc = "complete"

BootEntries(fw) ==
    {<<i, k>> \in (1..MaxSecs) \X (1..2) :
        /\ i \in DOMAIN ImageOf[fw].secs
        /\ ImageOf[fw].secs[i].type = FW_RESOURCE
        /\ k \in DOMAIN ImageOf[fw].secs[i].rsc
        /\ ImageOf[fw].secs[i].rsc[k].type = RSC_BOOTADDR}
HasOneBootaddr(fw) == fw # NoFw /\ Cardinality(BootEntries(fw)) = 1
BootDa(fw) ==
    LET e == CHOOSE e \in BootEntries(fw) : TRUE
    IN ImageOf[fw].secs[e[1]].rsc[e[2]].da

C9_PutReturns ==
    /\ \A c \in Loads : (cb[c].pc # "none") ~> (cb[c].pc = "none" /\ done)
    /\ \A t \in Threads : (pc[t] = "put_wait") ~> (pc[t] = "idle")

C9_Witness ==
    /\ \E t \in Threads : pc[t] = "put_wait"
    /\ \E c \in Loads : cb[c].pc = "complete" /\ cb[c].path = "no_mem"
    /\ ~done

----------------------------------------------------------------------------
(* Properties of the endpoint table *)

\* the addresses >= 1024 that are not bound in the table
FreeDynamic(tbl) ==
    {a \in RP_MSG_RESERVED_ADDRESSES..(RP_MSG_RESERVED_ADDRESSES + Cardinality(DOMAIN tbl)) :
        a \notin DOMAIN tbl}
MinOf(S) == CHOOSE a \in S : \A b \in S : a <= b

\* C10: over create_endpoint(ADDR_ANY) and destroy_endpoint calls alone,
\* each successful create_endpoint(ADDR_ANY) returns the smallest address
\* >= 1024 not bound at that moment and binds the endpoint there; the live
\* endpoints have pairwise distinct addresses, none below 1024.
C10_SmallestFree ==
    /\ [](ept_hist.only_any
            => /\ \A e \in DOMAIN epts :
                    /\ epts[e].addr >= RP_MSG_RESERVED_ADDRESSES
                    /\ epts[e].addr \in DOMAIN idr
                    /\ idr[epts[e].addr] = e
               /\ \A e, f \in DOMAIN epts : e # f => epts[e].addr # epts[f].addr)
    /\ [][ (ept_hist'.only_any /\ ept_hist'.creates # ept_hist.creates
              /\ ept_ret'.ept # NULL)
             => /\ ept_ret'.addr = MinOf(FreeDynamic(idr))
                /\ epts'[ept_ret'.ept[1]].addr = ept_ret'.addr
                /\ DOMAIN idr' = DOMAIN idr \cup {ept_ret'.addr} ]_vars

C10_Witness ==
    /\ ept_hist.only_any
    /\ ept_ret.ept # NULL
    /\ ept_ret.addr = 1024
    /\ 1025 \in DOMAIN idr
    /\ Cardinality(DOMAIN epts) = 2

\* the live endpoints whose address is a
LiveAt(tbl, a) == {e \in DOMAIN tbl : tbl[e].addr = a}

\* C11: create_endpoint with a concrete address a, memory being available,
\* returns an endpoint bound at exactly a when no endpoint has a, and
\* returns failure when an endpoint already has a.
C11_ConcreteAddr ==
    [][ (ept_hist'.creates # ept_hist.creates /\ ~ept_ret'.nomem
           /\ ept_ret'.req # RPMSG_ADDR_ANY)
          => IF LiveAt(epts, ept_ret'.req) # {}
             THEN ept_ret'.ept = NULL
             ELSE /\ ept_ret'.ept # NULL
                  /\ ept_ret'.addr = ept_ret'.req
                  /\ epts'[ept_ret'.ept[1]].addr = ept_ret'.req
                  /\ ept_ret'.req \in DOMAIN idr'
                  /\ idr'[ept_ret'.req] = ept_ret'.ept[1] ]_vars

----------------------------------------------------------------------------
(* Properties of the rings *)

\* rpmsg_recv_done takes a message off the used ring in this step
RecvTakes == rx_pc = "idle" /\ rx_pc' # "idle"
\* rpmsg_recv_done returns in this step
RecvReturns == rx_pc # "idle" /\ rx_pc' = "idle"

\* the endpoints have pairwise distinct addresses
DistinctAddrs == \A e, f \in DOMAIN epts : e # f => epts[e].addr # epts[f].addr

\* C12: with the endpoints at pairwise distinct addresses, a frame whose dst
\* is the address of an endpoint (that has a callback) runs exactly that
\* endpoint's callback, once, with the frame's payload, length and src; a
\* frame whose dst is no endpoint's address runs no callback; either way the
\* RX slot goes back on the RX ring and the ring is kicked.
C12_Dispatch ==
    [][ /\ (RecvTakes /\ DistinctAddrs)
          => LET f == rx_cur'.msg[1].frame
                 L == LiveAt(epts, f.dst)
             IN /\ (L # {} /\ \A e \in L : epts[e].cb # NULL)
                      => /\ rx_pc' = "callback"
                         /\ rx_cur'.ept # NULL /\ rx_cur'.ept[1] \in L
                         /\ ~rx_cur'.freed
                         /\ rx_cur'.data = f.data
                         /\ rx_cur'.len = f.len
                         /\ rx_cur'.src = f.src
                         /\ rx_hist'.cbs = rx_hist.cbs + 1
                /\ (L = {})
                      => /\ rx_pc' = "requeue"
                         /\ rx_cur'.ept = NULL
                         /\ rx_hist'.cbs = rx_hist.cbs
        /\ RecvReturns
          => /\ Len(rx_avail') = Len(rx_avail) + 1
             /\ rx_avail'[Len(rx_avail')].buf = rx_cur.msg[1].buf
             /\ rx_hist'.kicks = rx_hist.kicks + 1
             /\ rx_hist'.cbs = rx_hist.cbs ]_vars

\* a TX slot can be had: one was never used, or the remote handed one back
TxSlotFree == last_sbuf < num_bufs \div 2 \/ tx_used # <<>>

C15_Loopback ==
    [][ (RecvTakes /\ DistinctAddrs /\ rx_cur'.msg[1].sent # NULL)
          => LET m == rx_cur'.msg[1]
                 s == m.sent[1]
                 L == LiveAt(epts, s.dst)
             IN /\ m.frame.flags = 0
                /\ m.frame.unused = 0
                /\ m.frame.len = Len(s.data)
                /\ (L # {} /\ \A e \in L : epts[e].cb # NULL)
                      => /\ rx_pc' = "callback"
                         /\ rx_cur'.ept # NULL /\ rx_cur'.ept[1] \in L
                         /\ rx_cur'.src = s.src
                         /\ rx_cur'.len = Len(s.data)
                         /\ rx_cur'.data = s.data ]_vars

----------------------------------------------------------------------------
(* Properties of the channels *)

\* the channels with the name and the remote address given
Named(chs, name, dst) == {c \in DOMAIN chs : chs[c].name = name /\ chs[c].dst = dst}

\* C16: a well-formed name service message {name = "X", addr = A, flags =
\* CREATE}, memory being available, leaves exactly one channel with name
\* "X" and dst A on the bus, and that channel has src = ADDR_ANY; a
\* well-formed {name = "X", addr = A, flags = DESTROY} delivered while such
\* a channel exists leaves no channel with name "X" and dst A.
C16_NsCreateDestroy ==
    [][ \A a \in NsAddrs :
          /\ NsCb([name |-> NameX, addr |-> a, flags |-> RPMSG_NS_CREATE], NsMsgSize, "ok")
               => /\ Cardinality(Named(channels', NameX, a)) = 1
                  /\ \A c \in Named(channels', NameX, a) :
                         channels'[c].src = RPMSG_ADDR_ANY
          /\ (/\ NsCbDestroy([name |-> NameX, addr |-> a, flags |-> RPMSG_NS_DESTROY],
                             NsMsgSize)
              /\ Named(channels, NameX, a) # {})
               => Named(channels', NameX, a) = {} ]_vars

\* the string a char array holds: its bytes before the first NUL
CStr(s) == SubSeq(s, 1, strnlen(s))

\* C17: a name service message whose length is not the size of the name
\* service record creates and destroys nothing; for a message of that size
\* the name looked up or given to the new channel is the string held by the
\* received name with its last byte set to NUL, and it is NUL-terminated.
C17_NsValidation ==
    [][ ch_hist'.ns # ch_hist.ns
          => IF ns_ret'.len # NsMsgSize
             THEN /\ channels' = channels
                  /\ rpmsg_dev_index' = rpmsg_dev_index
                  /\ idr' = idr /\ epts' = epts
                  /\ ns_ret'.kind = "malformed"
             ELSE LET expect == CStr([ns_ret'.name EXCEPT ![RPMSG_NAME_SIZE] = 0])
                  IN /\ ns_ret'.chinfo # NoChinfo
                     /\ CStr(ns_ret'.chinfo[1].name) = expect
                     /\ ns_ret'.chinfo[1].name[RPMSG_NAME_SIZE] = 0
                     /\ \A c \in DOMAIN channels' \ DOMAIN channels :
                            /\ CStr(channels'[c].name) = expect
                            /\ channels'[c].name[RPMSG_NAME_SIZE] = 0 ]_vars

C17_Witness ==
    /\ ns_ret.kind = "malformed"
    /\ \E c \in DOMAIN channels : strnlen(channels[c].name) = RPMSG_NAME_SIZE - 1
    /\ \E c \in DOMAIN channels : channels[c].bound

\* rpmsg_dev_probe got as far as rpmsg_create_ept with memory available
ProbeRuns == ch_hist'.devops # ch_hist.devops /\ ept_hist'.creates # ept_hist.creates
                 /\ ~ept_ret'.nomem

\* C18: binding a driver to a channel whose src is ADDR_ANY, or an address
\* no endpoint has, creates an endpoint with the driver's callback at src,
\* or when src is ADDR_ANY at an address no endpoint had; src holds the
\* endpoint's address when probe is called; when probe fails the endpoint
\* is freed, its address is free in the endpoint table and the bind
\* returns an error, and when it succeeds the endpoint is bound there.
C18_BindEndpoint ==
    [][ ProbeRuns
          => LET c == probe_ret'.ch
                 src == channels[c].src
                 a == ept_ret'.addr
             IN (src = RPMSG_ADDR_ANY \/ LiveAt(epts, src) = {})
                  => /\ ept_ret'.ept # NULL
                     /\ IF src = RPMSG_ADDR_ANY
                        THEN LiveAt(epts, a) = {} /\ a # RPMSG_ADDR_ANY
                        ELSE a = src
                     /\ probe_ret'.src_at_probe = a
                     /\ channels'[c].src = a
                     /\ IF probe_ret'.err = "0"
                        THEN /\ channels'[c].bound
                             /\ channels'[c].ept = ept_ret'.ept
                             /\ ept_ret'.ept[1] \in DOMAIN epts'
                             /\ epts'[ept_ret'.ept[1]] = [addr |-> a, cb |-> DriverCb]
                             /\ a \in DOMAIN idr' /\ idr'[a] = ept_ret'.ept[1]
                        ELSE /\ ~channels'[c].bound
                             /\ ept_ret'.ept[1] \notin DOMAIN epts'
                             /\ a \notin DOMAIN idr' ]_vars

----------------------------------------------------------------------------
(* Properties of the registry *)

\* the records of the list named name
Registered(list, name) == {i \in DOMAIN list : list[i].name = name}

\* C19: rproc_register of a name that a registered processor has returns
\* EXISTS and leaves the registry as it was, and the registry never holds
\* two records with the same name.
C19_RegisterExists ==
    [][ /\ \A name \in RprocNames, nomem \in BOOLEAN :
              (RegRegister(name, nomem) /\ Registered(rprocs, name) # {})
                 => reg_ret'.ret = "EEXIST" /\ rprocs' = rprocs
        /\ \A name \in RprocNames : Cardinality(Registered(rprocs', name)) <= 1 ]_vars

\* C20: rproc_get of a name that no registered processor has, the registry
\* being empty or holding other names only, returns NULL (not found) and
\* changes no record and submits no load.
C20_GetNotFound ==
    [][ \A name \in RprocNames, wild \in BOOLEAN, loadok \in BOOLEAN :
          (RegGet(name, wild, loadok) /\ Registered(rprocs, name) = {})
             => /\ reg_ret'.ret = "NULL"
                /\ rprocs' = rprocs
                /\ reg_hist'.loads = reg_hist.loads ]_vars

----------------------------------------------------------------------------
(* Properties of the mailbox *)

\* C21: when omap_rpmsg_mbox_callback is given the CRASH code while the
\* processor's state is RUNNING, the state becomes CRASHED.
C21_CrashSetsCrashed ==
    [][ (MboxCode(RP_MBOX_CRASH) /\ state = RPROC_RUNNING) => state' = RPROC_CRASHED ]_vars

----------------------------------------------------------------------------
(* Properties of the address lookup *)

\* the entries of a map whose half-open range [da, da + size) holds the
\* device address a
Holding(maps, a) ==
    {i \in 1..(Len(maps) - 1) : a >= maps[i].da /\ a < maps[i].da + maps[i].size}

\* C22: for a map with non-overlapping ranges, rproc_da_to_pa returns
\* pa + (da - entry.da), in 32 bits, for a device address inside the range
\* of an entry, a range that ends at the top of the address space and a
\* translated address of 0 included, and not-found (0) for a device
\* address outside every range.
C22_Lookup ==
    lk_ret.called
      => IF Holding(lk_maps, lk_ret.da) = {}
         THEN lk_ret.pa = 0
         ELSE \E i \in Holding(lk_maps, lk_ret.da) :
                 lk_ret.pa = (lk_maps[i].pa + (lk_ret.da - lk_maps[i].da)) % U32_MOD

\* the translation of a device address that an entry of the map holds
Translated(maps, a) ==
    LET e == maps[CHOOSE j \in Holding(maps, a) : TRUE] IN (e.pa + (a - e.da)) % U32_MOD

\* the memory an image leaves behind when each section's content is written,
\* in image order, at the translation of its device address
RECURSIVE WrittenInOrder(_, _, _, _)
WrittenInOrder(maps, secs, i, mem) ==
    IF i > Len(secs) THEN mem
    ELSE WrittenInOrder(maps, secs, i + 1,
             section_memcpy(mem, Translated(maps, secs[i].da), i, secs[i].len))

\* C23: for an image of a valid header and complete sections whose device
\* addresses all lie in the memory map (none translating to the physical
\* address 0), parsing (every ioremap succeeding) leaves each section's
\* content at the translated physical address of its device address,
\* written in image order, and no other memory modified.
C23_SectionsWritten ==
    (/\ fw_ret.called
     /\ fw_ret.mapfail = 0
     /\ \A i \in 1..Len(fw_ret.image.secs) :
            /\ Holding(lk_maps, fw_ret.image.secs[i].da) # {}
            /\ Translated(lk_maps, fw_ret.image.secs[i].da) # 0)
      => fw_ret.mem = WrittenInOrder(lk_maps, fw_ret.image.secs, 1, <<>>)

----------------------------------------------------------------------------
(* Properties of the hardware spinlock helpers *)

\* context c returns from a helper in this step
HwReturns(c) == hw_ret'[c] # hw_ret[c] /\ hw_ret'[c].ret # "spinning"

\* C24: while the hardware spinlock is held, an attempt to take it fails and
\* leaves the holder as it was: bare_hwspin_trylock returns EBUSY, and
\* bare_hwspin_lock_timeout with a finite timeout that is not negative
\* returns only once its timeout has expired, and then ETIMEDOUT; on a free
\* lock, as after the holder's unlock, bare_hwspin_trylock takes it.
C24_HeldLockRefuses ==
    [][ \A c \in HwCtxs :
          /\ (hw_lock # 0 /\ HwReturns(c))
               => /\ hw_lock' = hw_lock
                  /\ hw_ret'[c].op = "trylock" => hw_ret'[c].ret = "EBUSY"
                  /\ (hw_ret'[c].op = "lock_timeout" /\ hw_pc[c].at = "spin")
                       => /\ hw_ret'[c].ret = "ETIMEDOUT"
                          /\ time_is_before_eq_jiffies(hw_pc[c].expire, jiffies)
          /\ (hw_lock # 0 /\ hw_pc[c].at = "spin" /\ hw_pc[c].to # MAX_SCHEDULE_TIMEOUT
                /\ time_is_before_eq_jiffies(hw_pc[c].expire, jiffies) /\ hw_pc'[c] # hw_pc[c])
               => hw_ret'[c].ret = "ETIMEDOUT"
          /\ (hw_lock = 0 /\ HwReturns(c) /\ hw_ret'[c].op = "trylock")
               => hw_ret'[c].ret = "OK" /\ hw_lock' = c ]_vars

\* a context has timed out on a lock another context holds, which took the
\* lock again after having unlocked it
C24_Witness ==
    \E c, d \in HwCtxs :
        /\ hw_ret[c].ret = "ETIMEDOUT"
        /\ hw_lock = d /\ d # c
        /\ hw_ret[d].op = "trylock" /\ hw_ret[d].ret = "OK"
        /\ hw_calls = MaxHwCalls

----------------------------------------------------------------------------
(* Frame of a refused create_endpoint *)

\* C25: a create_endpoint that fails because its concrete address is bound
\* leaves the endpoint table as it was: the endpoint bound at that address
\* stays bound there, and no other address becomes bound.
C25_FailedCreateFrame ==
    [][ (ept_hist'.creates # ept_hist.creates /\ ~ept_ret'.nomem
           /\ ept_ret'.req # RPMSG_ADDR_ANY /\ ept_ret'.req \in DOMAIN idr
           /\ ept_ret'.ept = NULL)
          => idr' = idr /\ epts' = epts ]_vars

\* C27: one run of rpmsg_recv_done dispatches every frame that is on the RX
\* used ring: once the receive path is idle again and every doorbell the
\* remote rang has been delivered, no frame the remote rang for is left on
\* the used ring, several frames sharing one doorbell included.
C27_RecvDrains ==
    (rx_pc = "idle" /\ mbox_fifo = <<>> /\ unrung = 0) => rx_used = <<>>

----------------------------------------------------------------------------
(* Properties of concurrent contexts *)

\* the sends that own a TX slot, with the slot: from get_a_buf's return
\* until the remote has put the slot on the TX used ring
Owned ==
    {<<cx[t].id, cx[t].slot>> : t \in {u \in Ctxs : cx[u].pc \in {"s_lock", "s_add", "s_kick"}}}
      \cup {<<tx_avail[i].id, tx_avail[i].buf>> : i \in 1..Len(tx_avail)}

\* C26: for every interleaving of concurrent sends, no TX slot is owned by
\* two sends at once.
C26_SlotOwnedOnce ==
    \A p, q \in Owned : p[2] = q[2] => p[1] = q[1]

\* how often the send id was put on the TX ring
TimesOnRing(id) == Cardinality({i \in 1..Len(cx_hist.ring) : cx_hist.ring[i] = id})

C29_LocksApart ==
    \A t \in Ctxs :
        /\ ~(svq_lock = t /\ endpoints_lock = t)
        /\ (cx[t].incb /\ endpoints_lock = t) => cx[t].pc \in {"c_body", "d_body"}

\* inside a callback a context sends, holding the TX lock, while another
\* context creates an endpoint, holding the endpoint lock
C29_Witness ==
    \E t, u \in Ctxs :
        /\ cx[t].incb /\ svq_lock = t
        /\ cx[u].pc = "c_body" /\ endpoints_lock = u

\* C30: once rpmsg_destroy_ept(e) has returned, rpmsg_recv_done neither
\* reads e's fields nor calls e's callback, however the destroy interleaves
\* with the dispatch of a message addressed to e.
C30_NoUseAfterDestroy ==
    [][ \A t \in Ctxs :
          (cx[t].pc = "r_check" /\ cx'[t].pc # "r_check" /\ cx[t].ept # NULL)
            => cx[t].ept[1] \notin cx_hist.destroyed ]_vars

----------------------------------------------------------------------------
(* Further properties of the lifecycle *)

\* C31: whatever the get and put calls and the outcomes of the load and of
\* the platform operations, ops->start does not succeed on a processor that
\* a start has brought up and no successful ops->stop has brought down since.
C31_NoSecondStart ==
    [][ (ops'.starts # ops.starts /\ ops'.last.ok) => ~proc_up ]_vars

----------------------------------------------------------------------------
(* Further properties of the rings *)

\* the slots rpmsg_probe gives to the RX ring and those get_a_buf hands to
\* senders, as byte offsets from vrp->rbufs
RxSlots == {RxSlot(i) : i \in 0..(num_bufs \div 2 - 1)}
TxSlots == {sbufs + buf_size * i : i \in 0..(num_bufs \div 2 - 1)}
RingBufs(q) == {q[i].buf : i \in DOMAIN q}

\* C32: after any sends and receptions, concurrent sends included, every
\* buffer on the RX ring is one of the slots [0, N/2), every buffer a sender
\* enqueues on the TX ring is one of the slots [N/2, N), and last_sbuf never
\* decreases and never exceeds N/2.
C32_SlotsAndCursor ==
    [][ /\ RingBufs(rx_avail') \cup RingBufs(rx_used') \subseteq RxSlots
        /\ RingBufs(tx_avail') \subseteq TxSlots
        /\ last_sbuf' >= last_sbuf
        /\ last_sbuf' <= num_bufs \div 2 ]_vars

----------------------------------------------------------------------------
(* Further properties of the firmware loader *)

\* the fw_resource entries of all resource sections of an image, in order
RECURSIVE ResourcesOf(_)
ResourcesOf(secs) ==
    IF secs = <<>> THEN <<>>
    ELSE (IF Head(secs).type = FW_RESOURCE THEN Head(secs).rsc ELSE <<>>)
             \o ResourcesOf(Tail(secs))

\* the device address of the last BOOTADDR entry among them, 0 without one
RECURSIVE LastBootaddr(_)
LastBootaddr(entries) ==
    IF entries = <<>> THEN 0
    ELSE IF entries[Len(entries)].type = RSC_BOOTADDR THEN entries[Len(entries)].da
    ELSE LastBootaddr(SubSeq(entries, 1, Len(entries) - 1))

\* C33: the resources of several FW_RESOURCE sections accumulate: an image
\* parsed to its end is started at the device address of the last BOOTADDR
\* entry of any of its resource sections (0 when it has none), also when a
\* resource section without BOOTADDR entry follows one that has it.
C33_BootaddrAccumulates ==
    (ld_ret.kind = "load" /\ ld_ret.out.path = "parsed")
        => ld_ret.out.bootaddr = LastBootaddr(ResourcesOf(ld_ret.image.secs))

\* C34: a section is processed whenever at least a section header remains:
\* when the header of a final section with len = 0 fills the file exactly,
\* the load gets to its end only if that section's device address is mapped.
C34_FinalEmptySectionParsed ==
    LET image == ld_ret.image
        n == Len(image.secs)
    IN (/\ ld_ret.kind = "load"
        /\ n > 0
        /\ image.secs[n].len = 0
        /\ image.size = FwHeaderSize + image.header_len + SecBytes(image.secs)
        /\ ld_ret.out.path = "parsed")
           => rproc_da_to_pa(memory_maps, Lo32(image.secs[n].da)) # 0

\* C35: for an image of at least the fixed header, whatever its header_len
\* and section lengths, every byte the parser reads lies inside the file,
\* and an image whose header_len exceeds the bytes behind the fixed header
\* is rejected and nothing of it is written.
C35_ReadsInsideImage ==
    LET image == ld_ret.image
        out == ld_ret.out
    IN (ld_ret.kind = "read" /\ image.size >= FwHeaderSize)
           => /\ \A k \in DOMAIN out.reads :
                     out.reads[k].n > 0 => out.reads[k].off + out.reads[k].n <= image.size
              /\ image.header_len > image.size - FwHeaderSize
                     => (out.path # "parsed" /\ out.wrote = 0)

\* C36: every RX slot on the RX ring, those the receive path has put back
\* included, is offered to the remote with the full slot size buf_size,
\* whatever the length of the message that came in it.
C36_RxSlotFullSize ==
    \A i \in DOMAIN rx_avail : rx_avail[i].len = buf_size

----------------------------------------------------------------------------
(* Further properties of the trace buffers *)

\* a TRACE entry stored by the rule: slot 0 if it is empty, otherwise slot 1
\* if it is empty, otherwise dropped; ok is whether the buffer gets mapped
StoreTrace(tb, e, ok) ==
    LET pa == rproc_da_to_pa(memory_maps, Lo32(e.da))
        ptr == ioremap_nocache(pa - (pa % PAGE_SIZE), ok)
    IN IF tb.buf0 = NULL THEN [tb EXCEPT !.buf0 = ptr, !.len0 = e.len]
       ELSE IF tb.buf1 = NULL THEN [tb EXCEPT !.buf1 = ptr, !.len1 = e.len]
       ELSE tb

RECURSIVE StoreTraces(_, _, _)
StoreTraces(tb, entries, ok) ==
    IF entries = <<>> THEN tb
    ELSE StoreTraces(IF Head(entries).type = RSC_TRACE THEN StoreTrace(tb, Head(entries), ok)
                     ELSE tb,
                     Tail(entries), ok)

\* C37: the TRACE entries of the sections a load gets through are stored in
\* slot 0 if it is empty, otherwise in slot 1 if it is empty, and dropped
\* with both slots unchanged otherwise; the put that brings the count to 0
\* leaves both slots empty, also after a load that failed part-way.
C37_TraceSlots ==
    [][ /\ \A c \in Loads :
             (cb[c].pc = "pending" /\ cb'[c].pc # "pending") =>
                 LET secs == TraceImageOf[cb'[c].fw].secs IN
                 \E k \in 0..Len(secs), ok \in BOOLEAN :
                     /\ cb'[c].path = "parsed" => k = Len(secs)
                     /\ TraceSlots' = StoreTraces(TraceSlots, ResourcesOf(SubSeq(secs, 1, k)), ok)
        /\ \A t \in Threads :
             (pc[t] = "put_lock" /\ pc'[t] = "idle" /\ count' = 0) =>
                 (trace_buf0' = NULL /\ trace_buf1' = NULL) ]_vars

\* the third trace buffer of an image has been dropped
C37_Witness ==
    \E c \in Loads :
        /\ cb[c].fw = "trace3" /\ cb[c].path = "parsed"
        /\ trace_buf0 # NULL /\ trace_len0 = 256
        /\ trace_buf1 # NULL /\ trace_len1 = 128

----------------------------------------------------------------------------
(* Further properties of the mailbox *)

\* the virtqueue a transport with base index B and n virtqueues is to
\* service for the value v
ServicedFor(v, B, n) ==
    IF v = RP_MBOX_PENDING_MSG THEN <<0>>
    ELSE IF v \in {RP_MBOX_CRASH, RP_MBOX_ECHO_REPLY} THEN NULL
    ELSE IF B <= v /\ v < B + n THEN <<v - B>>
    ELSE NULL

\* C38: a transport with base index B and n virtqueues services local
\* virtqueue v - B for a mailbox value v exactly when B <= v < B + n,
\* virtqueue 0 for PENDING_MSG and none for any other value; of the two
\* transports on one mailbox (B = 0 and B = 2, n = 2) exactly one services
\* each explicit index 0..3.
C38_MailboxDispatch ==
    mbox_hits.n > 0 =>
        /\ \A i \in DOMAIN omap_rpmsg_vprocs :
               mbox_hits.vqs[i] =
                   ServicedFor(mbox_hits.msg, omap_rpmsg_vprocs[i].base_vq_id, num_of_vqs)
        /\ mbox_hits.msg \in 0..3 =>
               Cardinality({i \in DOMAIN omap_rpmsg_vprocs : mbox_hits.vqs[i] # NULL}) = 1

\* index 3 has reached virtqueue 1 of the second transport alone
C38_Witness ==
    mbox_hits.n > 0 /\ mbox_hits.msg = 3 /\ mbox_hits.vqs = <<NULL, <<1>>>>

\* C39: omap_rpmsg_find_vqs returns success only with a valid processor
\* handle in rpdev->rproc: when rproc_get fails during the set-up, find_vqs
\* reports an error, so that no transport is up without its processor.
C39_SetupNeedsProcessor ==
    (rpdev.called /\ rpdev.ret = "0") => rpdev.rproc # NULL

\* C40: on an initialised transport the name service address is bound in
\* the endpoint table before any received message is dispatched: while
\* rpmsg_recv_done handles a message the address is bound, a frame with
\* dst = 53 gets a callback, and a user's rpmsg_create_ept(53) fails.
C40_NameServiceBound ==
    /\ rx_pc # "idle" => NS_ADDR \in DOMAIN idr
    /\ (rx_pc # "idle" /\ rx_cur.msg[1].frame.dst = NS_ADDR) => rx_cur.ept # NULL
    /\ (ept_ret.req = NS_ADDR /\ ~ept_ret.nomem) => ept_ret.ept = NULL

====
